---------------------------- MODULE Spec2Model ----------------------------
(***************************************************************************)
(* A model of bolt-rs / bolt-sys, the Rust interop layer of the Bolt       *)
(* scripting engine: the bit-packed object header (bolt-sys/src/sys.rs),   *)
(* the tagged Value and its checked conversions (bolt-rs/src/types/        *)
(* value.rs, bolt-sys/src/bt_value/) and the Thread argument ABI           *)
(* (bolt-rs/src/types/thread.rs, bolt-sys/src/context.rs).                 *)
(*                                                                         *)
(* A 64-bit word is the set of its set bit positions (a subset of 0..63),  *)
(* so that the bitwise operators of the source are computed on all 64      *)
(* bits; TLC's own integers are 32 bits wide.                              *)
(***************************************************************************)
EXTENDS Integers, Sequences, FiniteSets, TLC

VARIABLES
    mask,       \* the header word of the object under mutation (u64)
    prevMask,   \* the header word before the last mutation
    lastOp,     \* the last header mutation and its argument
    lastMark,   \* the value last written to the mark bit (or the initial one)
    lastType,   \* the tag last written by set_type (or the initial one)
    lastPtr,    \* the u64 last passed to set_next_ptr (or the initial pointer bits)
    val,        \* the bt_Value under inspection
    origin,     \* how val was made: "engine" (an engine constructor) or "raw"
    probe,      \* what each of the five predicates answered about val, once asked
    thread,     \* the bt_Thread of the current native call: its argument slots
    last,       \* the last conversion performed: operation, input, result, engine calls
    engines,    \* the engine contexts: whether each is open, how often it was closed
    wrappers,   \* the Context / BoltContext values of the host: state and pointer
    handles,    \* the object and thread handles the host holds (Copy values)
    lastCtx,    \* the last lifecycle operation and what it observed
    modules,    \* the module table of the open context: C name -> module pointer
    heapObjs,   \* the number of objects the engine has allocated in the context
    registered, \* per host name: the module pointers create_module registered under it
    errLog,     \* the number of on_error invocations so far
    lastCall,   \* the last Context call: operation, input, result, engine calls
    objs,       \* the heap objects of the collector: state, reference count, VM reachability
    roots,      \* the root stack of the context
    gcPaused,   \* whether automatic collection is paused
    gcHist,     \* push/pop counts and, per object, the votes seen when it was collected
    slot,       \* the engine's out_handle slot of a read_file call
    fileHandles,\* the boxed File handles currently allocated
    sources,    \* the source buffers currently allocated
    lastRead,   \* the last read_file call: inputs and result
    blocks,     \* the blocks of the host allocator: state and size in bytes
    lastAlloc,  \* the last allocator handler call and the layout it used
    lastSig,    \* the last signature built: the types given and what the engine got
    shapes,     \* the tableshapes of the context: parent link and field layout
    lastField,  \* the last field lookup: shape, key and result
    threads,    \* the engine threads: state and how often each was destroyed
    thandles,   \* the Thread / BoltThread values of the host: state and pointer
    lastThr     \* the last thread call and whether its thread was live

maskVars  == <<mask, prevMask, lastOp, lastMark, lastType, lastPtr>>
valueVars == <<val, origin, probe, last>>
ctxVars   == <<engines, wrappers, handles, lastCtx>>
modVars   == <<modules, heapObjs, registered, errLog, lastCall>>
gcVars    == <<objs, roots, gcPaused, gcHist>>
fileVars  == <<slot, fileHandles, sources, lastRead>>
allocVars == <<blocks, lastAlloc>>
shapeVars == <<shapes, lastField>>
thrVars   == <<threads, thandles, lastThr>>
extVars   == <<allocVars, lastSig, shapeVars, thrVars>>
hostVars  == <<ctxVars, modVars, gcVars, fileVars, extVars>>
vars      == <<maskVars, val, origin, probe, thread, last, hostVars>>

---------------------------------------------------------------------------
(* 64-bit and 32-bit words as sets of bit positions                        *)

Bits64 == 0..63
Bits32 == 0..31

\* a & b, a | b, !a on u64
BitAnd(a, b) == a \cap b
BitOr(a, b)  == a \cup b
BitNot64(a)  == Bits64 \ a

\* a << k and a >> k on u64 (k < 64): bits shifted out are lost
Shl64(a, k) == {b + k : b \in {x \in a : x + k <= 63}}
Shr64(a, k) == {b - k : b \in {x \in a : x >= k}}

\* `as u32` of a u64, `as u64` of a u32
AsU32(a) == a \cap Bits32
AsU64(a) == a

\* the word of a natural number below 2^31, and the number of a word below 2^31
FromNat(n) == {i \in 0..30 : (n \div (2 ^ i)) % 2 = 1}

RECURSIVE SumBits(_, _)
SumBits(a, i) ==
    IF i > 31 THEN 0
    ELSE (IF i \in a THEN 2 ^ i ELSE 0) + SumBits(a, i + 1)

ToNat(a) == SumBits(a, 0)

\* a 64-bit hexadecimal literal, given as its eight bytes, most significant first
HexU64(bytes) ==
    UNION {{8 * (8 - k) + i : i \in FromNat(bytes[k])} : k \in 1..8}

---------------------------------------------------------------------------
(* bolt-sys/src/sys.rs: object_mask                                        *)

MARK_BIT   == HexU64(<<0, 0, 0, 0, 0, 0, 0, 1>>)                \* 0x1
PTR_BITS   == HexU64(<<0, 255, 255, 255, 255, 255, 255, 252>>)  \* 0x00FF_FFFF_FFFF_FFFC
TYPE_SHIFT == 56
TYPE_MASK  == HexU64(<<0, 0, 0, 0, 0, 0, 0, 255>>)              \* 0xFF

\* ((mask >> TYPE_SHIFT) & TYPE_MASK) as u32
get_type(m) == ToNat(AsU32(BitAnd(Shr64(m, TYPE_SHIFT), TYPE_MASK)))

\* a slip: the pointer decoded with the mark bit and bit 1 left in
get_next_ptr_low_bits(m) == BitAnd(m, BitOr(PTR_BITS, {0, 1}))

\* mask & PTR_BITS
get_next_ptr(m) == BitAnd(m, PTR_BITS)

\* (mask & MARK_BIT) != 0
is_marked(m) == BitAnd(m, MARK_BIT) # {}

\* *mask |= MARK_BIT
set_mark(m) == BitOr(m, MARK_BIT)

\* a slip: the complement dropped, *mask &= MARK_BIT
clear_mark_no_complement(m) == BitAnd(m, MARK_BIT)

\* *mask &= !MARK_BIT
clear_mark(m) == BitAnd(m, BitNot64(MARK_BIT))

\* a slip: the old tag is not cleared, *mask |= (object_type as u64) << TYPE_SHIFT
set_type_keeps_old_tag(m, object_type) ==
    BitOr(m, Shl64(AsU64(object_type), TYPE_SHIFT))

\* a slip: the rest of the header is not kept, *mask = (object_type as u64) << TYPE_SHIFT
set_type_drops_rest(m, object_type) == Shl64(AsU64(object_type), TYPE_SHIFT)

\* *mask = (*mask & !(TYPE_MASK << TYPE_SHIFT)) | ((object_type as u64) << TYPE_SHIFT)
\* object_type is a u32, given as a word
set_type(m, object_type) ==
    BitOr(BitAnd(m, BitNot64(Shl64(TYPE_MASK, TYPE_SHIFT))),
          Shl64(AsU64(object_type), TYPE_SHIFT))

\* a slip: the argument is not masked, *mask = (*mask & !PTR_BITS) | ptr
set_next_ptr_unmasked(m, ptr) == BitOr(BitAnd(m, BitNot64(PTR_BITS)), ptr)

\* *mask = (*mask & !PTR_BITS) | (ptr & PTR_BITS)
set_next_ptr(m, ptr) == BitOr(BitAnd(m, BitNot64(PTR_BITS)), BitAnd(ptr, PTR_BITS))

---------------------------------------------------------------------------
(* The engine behind the FFI boundary (the C library of bolt-sys/bolt,     *)
(* not part of the Rust sources): values, object kinds, the heap and the   *)
(* thread's argument slots, as the specification describes them.           *)

\* bt_ObjectType: the 8-bit object-type tag of a header, in the order
\* None, Type, String, Module, Import, Function, NativeFunction, Closure,
\* Array, Table, UserData, Annotation (the names are those of the bindings)
bt_ObjectType_BT_OBJECT_TYPE_NONE == 0
bt_ObjectType_BT_OBJECT_TYPE_TYPE == 1
bt_ObjectType_BT_OBJECT_TYPE_STRING == 2
bt_ObjectType_BT_OBJECT_TYPE_MODULE == 3
bt_ObjectType_BT_OBJECT_TYPE_IMPORT == 4
bt_ObjectType_BT_OBJECT_TYPE_FN == 5
bt_ObjectType_BT_OBJECT_TYPE_NATIVE_FN == 6
bt_ObjectType_BT_OBJECT_TYPE_CLOSURE == 7
bt_ObjectType_BT_OBJECT_TYPE_ARRAY == 8
bt_ObjectType_BT_OBJECT_TYPE_TABLE == 9
bt_ObjectType_BT_OBJECT_TYPE_USERDATA == 10
bt_ObjectType_BT_OBJECT_TYPE_ANNOTATION == 11

\* the heap holds NumObjects objects at the addresses 1..NumObjects (0 is the
\* null pointer); the object at address a carries the tag a - 1, so that every
\* known kind and one unknown tag occur, over headers with other bits set
NumObjects == 13
Addresses == 1..NumObjects

HeaderOf(a) ==
    set_type(IF a % 2 = 1 THEN {0, 3, 55} ELSE {2}, FromNat(a - 1))

Heap == [a \in Addresses |-> [mask |-> HeaderOf(a)]]

\* a bt_Value: the discriminants its bit pattern answers to, and its payload.
\* A value the engine made answers to exactly one discriminant; an arbitrary
\* bit pattern may answer to none or to several.
Discriminants == {"null", "bool", "number", "enum", "object"}

bt_make_null == [tags |-> {"null"}, num |-> 0, ptr |-> 0]
bt_make_bool(b) == [tags |-> {"bool"}, num |-> b, ptr |-> 0]
bt_make_number(x) == [tags |-> {"number"}, num |-> x, ptr |-> 0]
bt_make_enum_val(e) == [tags |-> {"enum"}, num |-> e, ptr |-> 0]
bt_value(p) == [tags |-> {"object"}, num |-> 0, ptr |-> p]

\* the predicates return a bt_bool (0 or 1)
bt_is_null(v) == IF "null" \in v.tags THEN 1 ELSE 0
bt_is_bool(v) == IF "bool" \in v.tags THEN 1 ELSE 0
bt_is_number(v) == IF "number" \in v.tags THEN 1 ELSE 0
bt_is_enum_val(v) == IF "enum" \in v.tags THEN 1 ELSE 0
bt_is_object(v) == IF "object" \in v.tags THEN 1 ELSE 0

\* the payload readers
bt_get_number(v) == v.num
bt_get_bool(v) == v.num
bt_get_enum_val(v) == v.num
bt_object(v) == v.ptr

\* the thread of a native call: bt_argc and bt_arg
bt_argc(th) == Len(th.args)
bt_arg(th, idx) == th.args[idx + 1]

\* bt_arg with any index: past the frame the slot holds whatever the stack
\* holds there
bt_arg_any(th, idx, beyond) == IF idx < Len(th.args) THEN bt_arg(th, idx) ELSE beyond

\* bt_return stores the result of the native call, which the calling
\* script observes as the value of the call; bt_get_returned reads the
\* result the last call left
bt_return(th, v) == [th EXCEPT !.returned = v]
bt_get_returned(th) == th.returned

\* bolt-sys uses ObjectType::from(u32), which the sources do not define: the
\* tag of a known kind maps to that kind, any other tag to None
ObjectType_from(tag) ==
    CASE tag = bt_ObjectType_BT_OBJECT_TYPE_TYPE -> "Type"
      [] tag = bt_ObjectType_BT_OBJECT_TYPE_STRING -> "String"
      [] tag = bt_ObjectType_BT_OBJECT_TYPE_MODULE -> "Module"
      [] tag = bt_ObjectType_BT_OBJECT_TYPE_IMPORT -> "Import"
      [] tag = bt_ObjectType_BT_OBJECT_TYPE_FN -> "Function"
      [] tag = bt_ObjectType_BT_OBJECT_TYPE_NATIVE_FN -> "NativeFunction"
      [] tag = bt_ObjectType_BT_OBJECT_TYPE_CLOSURE -> "Closure"
      [] tag = bt_ObjectType_BT_OBJECT_TYPE_ARRAY -> "Array"
      [] tag = bt_ObjectType_BT_OBJECT_TYPE_TABLE -> "Table"
      [] tag = bt_ObjectType_BT_OBJECT_TYPE_USERDATA -> "UserData"
      [] tag = bt_ObjectType_BT_OBJECT_TYPE_ANNOTATION -> "Annotation"
      [] OTHER -> "None"

---------------------------------------------------------------------------
(* Results: what a function returned and the engine calls it made, in order *)

R(ret, calls) == [ret |-> ret, calls |-> calls]

None == [some |-> FALSE]
SomeNum(x) == [some |-> TRUE, num |-> x]
SomeObj(p) == [some |-> TRUE, ptr |-> p]

OkNum(x) == [ok |-> TRUE, num |-> x]
OkObj(p) == [ok |-> TRUE, ptr |-> p]
Err(e) == [ok |-> FALSE, err |-> e]
TypeGuard(expected, actual) ==
    [tag |-> "TypeGuard", expected |-> expected, actual |-> actual]
IndexOutOfBounds(idx, len) ==
    [tag |-> "IndexOutOfBounds", idx |-> idx, len |-> len]

\* todo!() and unreachable!(): the call does not return
Panic == "panic"

---------------------------------------------------------------------------
(* bolt-rs/src/types/value.rs: Value                                       *)

Value_is_number(v) == R(bt_is_number(v) # 0, <<"bt_is_number">>)
Value_is_bool(v) == R(bt_is_bool(v) # 0, <<"bt_is_bool">>)
Value_is_null(v) == R(bt_is_null(v) # 0, <<"bt_is_null">>)

\* a slip: the enum predicate asks the object predicate
Value_is_enum_asks_object(v) == R(bt_is_object(v) # 0, <<"bt_is_object">>)

Value_is_enum(v) == R(bt_is_enum_val(v) # 0, <<"bt_is_enum_val">>)
Value_is_object(v) == R(bt_is_object(v) # 0, <<"bt_is_object">>)

\* a slip: the payload is read before the predicate is consulted
Value_as_number_unchecked(v) == R(SomeNum(bt_get_number(v)), <<"bt_get_number">>)

Value_as_number(v) ==
    LET c == Value_is_number(v) IN
    IF c.ret THEN R(SomeNum(bt_get_number(v)), c.calls \o <<"bt_get_number">>)
    ELSE R(None, c.calls)

\* Some(bt_get_bool(v) != 0): the payload is kept as 0 or 1
Value_as_bool(v) ==
    LET c == Value_is_bool(v) IN
    IF c.ret THEN R(SomeNum(IF bt_get_bool(v) # 0 THEN 1 ELSE 0),
                    c.calls \o <<"bt_get_bool">>)
    ELSE R(None, c.calls)

Value_as_enum(v) ==
    LET c == Value_is_enum(v) IN
    IF c.ret THEN R(SomeNum(bt_get_enum_val(v)), c.calls \o <<"bt_get_enum_val">>)
    ELSE R(None, c.calls)

\* bolt-rs/src/wrappers.rs define_object_wrapper: from_raw is NonNull::new
Object_from_raw(p) == IF p = 0 THEN None ELSE SomeObj(p)

Value_as_object(v) ==
    LET c == Value_is_object(v) IN
    IF c.ret THEN R(Object_from_raw(bt_object(v)), c.calls \o <<"bt_object">>)
    ELSE R(None, c.calls)

\* define_object_wrapper: object_type reads the header through the pointer
Object_object_type(p) == R(get_type(Heap[p].mask), <<"read_mask">>)

\* bolt-rs/src/types/object.rs
Object_value_type(p) ==
    LET t == Object_object_type(p) IN
    R(CASE t.ret = bt_ObjectType_BT_OBJECT_TYPE_TYPE -> "Type"
        [] t.ret = bt_ObjectType_BT_OBJECT_TYPE_STRING -> "String"
        [] t.ret = bt_ObjectType_BT_OBJECT_TYPE_MODULE -> "Module"
        [] t.ret = bt_ObjectType_BT_OBJECT_TYPE_IMPORT -> "Import"
        [] t.ret = bt_ObjectType_BT_OBJECT_TYPE_USERDATA -> "UserData"
        [] t.ret = bt_ObjectType_BT_OBJECT_TYPE_ANNOTATION -> "Annotation"
        [] t.ret = bt_ObjectType_BT_OBJECT_TYPE_FN -> "Function"
        [] t.ret = bt_ObjectType_BT_OBJECT_TYPE_NATIVE_FN -> "NativeFunction"
        [] t.ret = bt_ObjectType_BT_OBJECT_TYPE_CLOSURE -> "Closure"
        [] t.ret = bt_ObjectType_BT_OBJECT_TYPE_ARRAY -> "Array"
        [] t.ret = bt_ObjectType_BT_OBJECT_TYPE_TABLE -> "Table"
        [] OTHER -> "None",
      t.calls)

\* bolt-rs ValueType::from_value
ValueType_from_value(v) ==
    LET n == Value_is_null(v) IN
    IF n.ret THEN R("Null", n.calls) ELSE
    LET b == Value_is_bool(v) IN
    IF b.ret THEN R("Bool", n.calls \o b.calls) ELSE
    LET m == Value_is_number(v) IN
    IF m.ret THEN R("Number", n.calls \o b.calls \o m.calls) ELSE
    LET e == Value_is_enum(v) IN
    IF e.ret THEN R("Enum", n.calls \o b.calls \o m.calls \o e.calls) ELSE
    LET o == Value_as_object(v) IN
    LET pre == n.calls \o b.calls \o m.calls \o e.calls \o o.calls IN
    IF o.ret.some
    THEN LET t == Object_value_type(o.ret.ptr) IN R(t.ret, pre \o t.calls)
    ELSE R("None", pre)

\* bolt-rs impl FromBoltValue for f64
f64_from(v) ==
    IF bt_is_number(v) # 0
    THEN R(OkNum(bt_get_number(v)), <<"bt_is_number", "bt_get_number">>)
    ELSE LET a == ValueType_from_value(v) IN
         R(Err(TypeGuard("Number", a.ret)), <<"bt_is_number">> \o a.calls)

\* bolt-rs Type::from_raw / Module::from_raw: NonNull::new, no look at the header
Type_from_raw(p) == IF p = 0 THEN None ELSE SomeObj(p)
Module_from_raw(p) == IF p = 0 THEN None ELSE SomeObj(p)

\* bolt-rs impl FromBoltValue for Type
Type_from(v) ==
    IF bt_is_object(v) = 0
    THEN LET a == ValueType_from_value(v) IN
         R(Err(TypeGuard("Type", a.ret)), <<"bt_is_object">> \o a.calls)
    ELSE LET h == Type_from_raw(bt_object(v)) IN
         R(IF h.some THEN OkObj(h.ptr) ELSE Err(TypeGuard("Type", "None")),
           <<"bt_is_object", "bt_object">>)

\* bolt-rs impl FromBoltValue for Module
Module_from(v) ==
    IF bt_is_object(v) = 0
    THEN LET a == ValueType_from_value(v) IN
         R(Err(TypeGuard("Module", a.ret)), <<"bt_is_object">> \o a.calls)
    ELSE LET h == Module_from_raw(bt_object(v)) IN
         R(IF h.some THEN OkObj(h.ptr) ELSE Err(TypeGuard("Module", "None")),
           <<"bt_is_object", "bt_object">>)

\* a slip: the number is handed over as a bool, bt_make_bool(*self != 0.0)
f64_make_as_bool(x) == bt_make_bool(IF x # 0 THEN 1 ELSE 0)

\* bolt-rs impl MakeBoltValue for f64, Type and Module
f64_make(x) == bt_make_number(x)
Type_make(p) == bt_value(p)
Module_make(p) == bt_value(p)

---------------------------------------------------------------------------
(* bolt-sys/src/bt_value: the same conversions in the lower crate          *)

\* bolt-sys ValueType::from_value: the enum and object arms are todo!()
sys_ValueType_from_value(v) ==
    IF bt_is_null(v) # 0 THEN R("Null", <<"bt_is_null">>) ELSE
    IF bt_is_bool(v) # 0 THEN R("Bool", <<"bt_is_null", "bt_is_bool">>) ELSE
    IF bt_is_number(v) # 0
    THEN R("Number", <<"bt_is_null", "bt_is_bool", "bt_is_number">>) ELSE
    LET pre == <<"bt_is_null", "bt_is_bool", "bt_is_number", "bt_is_enum_val">> IN
    IF bt_is_enum_val(v) # 0 THEN R(Panic, pre) ELSE
    IF bt_object(v) = 0 THEN R("None", pre \o <<"bt_object">>) ELSE
    IF bt_is_object(v) # 0
    THEN R(Panic, pre \o <<"bt_object", "bt_is_object", "read_mask">>)
    ELSE R("None", pre \o <<"bt_object", "bt_is_object">>)

\* bolt-sys impl FromBoltValue for f64
sys_f64_from(v) ==
    IF bt_is_number(v) # 0
    THEN R(OkNum(bt_get_number(v)), <<"bt_is_number", "bt_get_number">>)
    ELSE R(Err(TypeGuard("Number", "None")), <<"bt_is_number">>)

\* bolt-sys impl MakeBoltValue for f64
sys_f64_make(x) == bt_make_number(x)

\* bolt-sys BoltContext::resolve_type: todo!()
BoltContext_resolve_type(v) == R(Panic, <<>>)

\* bolt-sys ObjectType::from_mask
ObjectType_from_mask(m) == ObjectType_from(get_type(m))

\* bolt-sys BoltObject::from_raw: the variant of the header's kind
BoltObject_from_raw(p) ==
    IF p = 0 THEN R(None, <<>>)
    ELSE R([some |-> TRUE, kind |-> ObjectType_from_mask(Heap[p].mask), ptr |-> p],
           <<"read_mask">>)

\* bolt-sys impl FromBoltValue for BoltObject
BoltObject_from(v) ==
    IF bt_is_object(v) # 0
    THEN LET o == BoltObject_from_raw(bt_object(v)) IN
         R(IF o.ret.some THEN [ok |-> TRUE, kind |-> o.ret.kind, ptr |-> o.ret.ptr]
           ELSE Err(TypeGuard("None", "None")),
           <<"bt_is_object", "bt_object">> \o o.calls)
    ELSE R(Err(TypeGuard("None", "None")), <<"bt_is_object">>)

\* bolt-sys impl FromBoltValue for Type
sys_Type_from(v) ==
    LET o == BoltObject_from(v) IN
    IF ~o.ret.ok THEN o
    ELSE IF o.ret.kind = "Type" THEN R(OkObj(o.ret.ptr), o.calls)
    ELSE R(Err(TypeGuard("Type", "None")), o.calls)

\* bolt-sys impl FromBoltValue for Module
sys_Module_from(v) ==
    LET o == BoltObject_from(v) IN
    IF ~o.ret.ok THEN o
    ELSE IF o.ret.kind = "Module" THEN R(OkObj(o.ret.ptr), o.calls)
    ELSE R(Err(TypeGuard("Module", "None")), o.calls)

---------------------------------------------------------------------------
(* Thread::get_arg (bolt-rs/src/types/thread.rs) and BoltThread::get_arg   *)
(* (bolt-sys/src/context.rs); T names the type asked for, whose            *)
(* FromBoltValue::from does the conversion                                 *)

\* T::from(val) for the implementations of bolt-rs
FromBoltValue_from(T, v) ==
    CASE T = "f64" -> f64_from(v)
      [] T = "Type" -> Type_from(v)
      [] T = "Module" -> Module_from(v)

\* T::from(val) for the implementations of bolt-sys
sys_FromBoltValue_from(T, v) ==
    CASE T = "f64" -> sys_f64_from(v)
      [] T = "Type" -> sys_Type_from(v)
      [] T = "Module" -> sys_Module_from(v)

\* a slip: the error is built with idx and len exchanged
Thread_get_arg_swapped(th, idx, T) ==
    LET len == bt_argc(th) IN
    IF len <= idx THEN R(Err(IndexOutOfBounds(len, idx)), <<"bt_argc">>)
    ELSE LET c == FromBoltValue_from(T, bt_arg(th, idx)) IN
         R(c.ret, <<"bt_argc", "bt_arg">> \o c.calls)

Thread_get_arg(th, idx, T) ==
    LET len == bt_argc(th) IN
    IF len <= idx THEN R(Err(IndexOutOfBounds(idx, len)), <<"bt_argc">>)
    ELSE LET c == FromBoltValue_from(T, bt_arg(th, idx)) IN
         R(c.ret, <<"bt_argc", "bt_arg">> \o c.calls)

BoltThread_get_arg(th, idx, T) ==
    LET len == bt_argc(th) IN
    IF len <= idx THEN R(Err(IndexOutOfBounds(idx, len)), <<"bt_argc">>)
    ELSE LET c == sys_FromBoltValue_from(T, bt_arg(th, idx)) IN
         R(c.ret, <<"bt_argc", "bt_arg">> \o c.calls)

---------------------------------------------------------------------------
(* The unchecked conversions and the rest of Thread / BoltThread           *)

\* a value of the type asked for
PlainNum(x) == [num |-> x]
PlainObj(p) == [ptr |-> p]
\* unreachable!(): the call does not return
Unreachable == [panic |-> TRUE]

\* bolt-rs from_unchecked: bt_get_number(val); from_raw_unchecked(bt_object(val))
f64_from_unchecked(v) == R(PlainNum(bt_get_number(v)), <<"bt_get_number">>)
Type_from_unchecked(v) == R(PlainObj(bt_object(v)), <<"bt_object">>)
Module_from_unchecked(v) == R(PlainObj(bt_object(v)), <<"bt_object">>)

\* bolt-sys from_unchecked for f64
sys_f64_from_unchecked(v) == R(PlainNum(bt_get_number(v)), <<"bt_get_number">>)

\* bolt-sys BoltObject::from_unchecked: BoltObject::from_raw(bt_object(val))
\* .unwrap_or(BoltObject::None)
BoltObject_from_unchecked(v) ==
    LET o == BoltObject_from_raw(bt_object(v)) IN
    R(IF o.ret.some THEN [kind |-> o.ret.kind, ptr |-> o.ret.ptr]
      ELSE [kind |-> "None", ptr |-> 0],
      <<"bt_object">> \o o.calls)

\* bolt-sys from_unchecked for Type and Module: the variant, else unreachable!()
sys_Type_from_unchecked(v) ==
    LET o == BoltObject_from_unchecked(v) IN
    R(IF o.ret.kind = "Type" THEN PlainObj(o.ret.ptr) ELSE Unreachable, o.calls)

sys_Module_from_unchecked(v) ==
    LET o == BoltObject_from_unchecked(v) IN
    R(IF o.ret.kind = "Module" THEN PlainObj(o.ret.ptr) ELSE Unreachable, o.calls)

\* T::from_unchecked(val)
FromBoltValue_from_unchecked(T, v) ==
    CASE T = "f64" -> f64_from_unchecked(v)
      [] T = "Type" -> Type_from_unchecked(v)
      [] T = "Module" -> Module_from_unchecked(v)

sys_FromBoltValue_from_unchecked(T, v) ==
    CASE T = "f64" -> sys_f64_from_unchecked(v)
      [] T = "Type" -> sys_Type_from_unchecked(v)
      [] T = "Module" -> sys_Module_from_unchecked(v)

\* a slip: slot 0 is read whatever the index
Thread_get_arg_unchecked_first(th, idx, T, beyond) ==
    LET c == FromBoltValue_from_unchecked(T, bt_arg_any(th, 0, beyond)) IN
    R(c.ret, <<"bt_arg">> \o c.calls)

\* Thread::get_arg_unchecked: bt_arg(self.as_ptr(), idx), T::from_unchecked(val)
Thread_get_arg_unchecked(th, idx, T, beyond) ==
    LET c == FromBoltValue_from_unchecked(T, bt_arg_any(th, idx, beyond)) IN
    R(c.ret, <<"bt_arg">> \o c.calls)

BoltThread_get_arg_unchecked(th, idx, T, beyond) ==
    LET c == sys_FromBoltValue_from_unchecked(T, bt_arg_any(th, idx, beyond)) IN
    R(c.ret, <<"bt_arg">> \o c.calls)

\* Thread::get_returned: bt_get_returned(self.as_ptr()), T::from(val)
Thread_get_returned(th, T) ==
    LET c == FromBoltValue_from(T, bt_get_returned(th)) IN
    R(c.ret, <<"bt_get_returned">> \o c.calls)

BoltThread_get_returned(th, T) ==
    LET c == sys_FromBoltValue_from(T, bt_get_returned(th)) IN
    R(c.ret, <<"bt_get_returned">> \o c.calls)

\* Thread::get_returned_unchecked
Thread_get_returned_unchecked(th, T) ==
    LET c == FromBoltValue_from_unchecked(T, bt_get_returned(th)) IN
    R(c.ret, <<"bt_get_returned">> \o c.calls)

BoltThread_get_returned_unchecked(th, T) ==
    LET c == sys_FromBoltValue_from_unchecked(T, bt_get_returned(th)) IN
    R(c.ret, <<"bt_get_returned">> \o c.calls)

\* Thread::argc: bt_argc(self.as_ptr())
Thread_argc(th) == bt_argc(th)
BoltThread_argc(th) == bt_argc(th)

\* a slip: the value is made and dropped, bt_return is not called
Thread_return_val_dropped(th, x) == th

\* Thread::return_val: bt_return(self.as_ptr(), val.make())
Thread_return_val(th, x) == bt_return(th, f64_make(x))
BoltThread_return_val(th, x) == bt_return(th, sys_f64_make(x))

\* the native function of the tests, for any number of parameters: each
\* argument is read with get_arg::<f64>(i).expect(..), their sum is returned
\* with return_val
RECURSIVE SumOk(_, _)
SumOk(seen, i) == IF i > Len(seen) THEN 0 ELSE seen[i].num + SumOk(seen, i + 1)

Native(argc, seen, th) == [argc |-> argc, seen |-> seen, thread |-> th]

add_numbers(th) ==
    LET argc == Thread_argc(th)
        seen == [i \in 1..argc |-> Thread_get_arg(th, i - 1, "f64").ret] IN
    IF \A i \in 1..argc : seen[i].ok
    THEN Native(argc, seen, Thread_return_val(th, SumOk(seen, 1)))
    ELSE Native(argc, seen, th)

sys_add_numbers(th) ==
    LET argc == BoltThread_argc(th)
        seen == [i \in 1..argc |-> BoltThread_get_arg(th, i - 1, "f64").ret] IN
    IF \A i \in 1..argc : seen[i].ok
    THEN Native(argc, seen, BoltThread_return_val(th, SumOk(seen, 1)))
    ELSE Native(argc, seen, th)

---------------------------------------------------------------------------
(* The engine's contexts (bt_open / bt_close), modelled from the           *)
(* specification: a context is created once and torn down on close         *)

\* the engine contexts one run can open; pointer 0 is the null pointer
MaxEngines == 2
Engines == 1..MaxEngines

FreshEngines == [e \in Engines |-> [st |-> "free", closes |-> 0]]

\* bt_open(&mut ctx, &mut handlers): writes the new context to *ctx, or leaves
\* it null when the context cannot be created (ok = FALSE: allocation failed)
bt_open(es, ok) ==
    LET free == {e \in Engines : es[e].st = "free"} IN
    IF ok /\ free # {}
    THEN LET p == CHOOSE e \in free : \A f \in free : e <= f IN
         [ptr |-> p, engines |-> [es EXCEPT ![p].st = "open"]]
    ELSE [ptr |-> 0, engines |-> es]

\* bt_close(ctx): tears the context down; every call is counted
bt_close(es, p) ==
    IF p \in Engines
    THEN [es EXCEPT ![p].st = "closed", ![p].closes = @ + 1]
    ELSE es

---------------------------------------------------------------------------
(* bolt-rs/src/types/context.rs and bolt-sys/src/context.rs: the wrappers  *)
(* around bt_Context                                                       *)

\* the result of a constructor: it returns a wrapper around ptr, or panics
Built(p, es) == [panic |-> FALSE, ptr |-> p, engines |-> es]
Aborted(es) == [panic |-> TRUE, ptr |-> 0, engines |-> es]

\* Context::from_raw: NonNull::new(ptr).map(..)
Context_from_raw(p) == IF p = 0 THEN None ELSE SomeObj(p)

\* Context::new: bt_open, then from_raw(ctx).expect(..)
Context_new(es, ok) ==
    LET o == bt_open(es, ok) IN
    IF Context_from_raw(o.ptr).some
    THEN Built(o.ptr, o.engines)
    ELSE Aborted(o.engines)

\* BoltContext::new: bt_open, then BoltContext { ctx }
BoltContext_new(es, ok) ==
    LET o == bt_open(es, ok) IN Built(o.ptr, o.engines)

\* BoltContext::from_raw: Self { ctx: ptr }
BoltContext_from_raw(p) == SomeObj(p)

\* #[derive(Clone)] on Context: the copy carries the same pointer
Context_clone(p) == p

\* impl Drop for Context / BoltContext: bt_close(self.as_ptr())
Context_drop(es, p) == bt_close(es, p)
BoltContext_drop(es, p) == bt_close(es, p)

\* the wrapper values one run creates
MaxWrappers == 3
WrapperIds == 1..MaxWrappers

NoWrapper == [st |-> "unused", ptr |-> 0, crate |-> "none", via |-> "none"]
NoCtxOp == [op |-> "none", ptr |-> 0, panic |-> FALSE, sharers |-> 0, open |-> FALSE]

InitCtxDefaults ==
    /\ engines = FreshEngines
    /\ wrappers = [w \in WrapperIds |-> NoWrapper]
    /\ handles = {}
    /\ lastCtx = NoCtxOp

---------------------------------------------------------------------------
(* Host strings and their conversion to C strings                          *)

\* the host strings passed in (sequences of bytes): the empty string, two
\* names without a nul byte, and names with a nul byte at the end, at the
\* start and alone
HostStrings == {<<>>, <<97>>, <<98>>, <<97, 0>>, <<0, 98>>, <<0>>}

\* the source texts passed in: one without and one with a nul byte
SourceTexts == {<<97>>, <<97, 0, 98>>}

HasNul(s) == \E i \in 1..Len(s) : s[i] = 0

\* the strings a C string can hold
CNames == {s \in HostStrings : ~HasNul(s)}

\* std::ffi::CString::new: fails with NulError on an interior nul byte
NulError == [tag |-> "NulError"]
CString_new(s) == IF HasNul(s) THEN [ok |-> FALSE, err |-> NulError]
                  ELSE [ok |-> TRUE, cstr |-> s]

\* impl IntoCStr for &str / String: CString::new(*self).map(Cow::Owned)
as_c_str(s) == CString_new(s)

\* crate::Error and crate::ModuleError
OkUnit == [ok |-> TRUE]
StringConversion == [tag |-> "StringConversion"]
BoltError(msg) == [tag |-> "BoltError", msg |-> msg]
NotFound(name) == [tag |-> "NotFound", name |-> name]
AlreadyRegistered(name) == [tag |-> "AlreadyRegistered", name |-> name]

---------------------------------------------------------------------------
(* The engine behind an open context, modelled from the specification:     *)
(* its heap, its module table and its error callback                       *)

\* sys::BT_TRUE and sys::BT_FALSE
BT_TRUE == 1
BT_FALSE == 0

\* the state of the engine: the module table (C name -> module pointer, 0
\* for none), the number of objects allocated (the next object lives at
\* address heap + 1) and the number of on_error invocations
NoModules == [n \in CNames |-> 0]
FreshEngine == [modules |-> NoModules, heap |-> 0, errs |-> 0]

\* what an engine call hands back: its result, the callbacks it invoked and
\* the engine state it leaves
Ran(ret, calls, eng) == [ret |-> ret, calls |-> calls, eng |-> eng]

\* allocation of one object
Alloc(eng) == [eng EXCEPT !.heap = @ + 1]

\* bt_make_string(ctx, cstr): a new string object with these characters
bt_make_string(eng, cstr) ==
    Ran([addr |-> eng.heap + 1, chars |-> cstr], <<>>, Alloc(eng))

\* bt_value of a string object (the model carries the characters along)
bt_string_value(str) ==
    [tags |-> {"object"}, num |-> 0, ptr |-> str.addr, chars |-> str.chars]

\* bt_get_or_make_interned(ctx, cstr, len)
bt_get_or_make_interned(eng, cstr) ==
    Ran([addr |-> eng.heap + 1, chars |-> cstr], <<>>, Alloc(eng))

\* bt_make_enum_type(ctx, name, sealed): a new type object
bt_make_enum_type(eng, cstr) == Ran(eng.heap + 1, <<>>, Alloc(eng))

\* bt_append_module_path(ctx, spec): the engine keeps a copy of the path
bt_append_module_path(eng, cstr) == Ran(0, <<>>, Alloc(eng))

\* bt_make_module(ctx): a new, unregistered module
bt_make_module(eng) == Ran(eng.heap + 1, <<>>, Alloc(eng))

\* bt_register_module(ctx, name, module): enters the module in the table
\* under the characters of name; for a name already present the
\* specification does not say whether the entry is kept or replaced
bt_register_module(eng, name, module, keep) ==
    Ran(0, <<>>,
        [eng EXCEPT !.modules[name.chars] = IF @ # 0 /\ keep THEN @ ELSE module])

\* bt_find_module(ctx, name, suppress_errors): the module registered under
\* the characters of name, or null
bt_find_module(eng, name, suppress) == Ran(eng.modules[name.chars], <<>>, eng)

\* the verdicts of the engine on a piece of source
Outcomes == {"ok", "parse", "runtime"}

\* the engine reports a failure through the on_error callback of the
\* handler table before the failing call returns
ReportError(eng) == [eng EXCEPT !.errs = @ + 1]

\* bt_run(ctx, code): BT_TRUE on success; on failure the diagnostic goes to
\* on_error and the call returns BT_FALSE
bt_run(eng, cstr, outcome) ==
    IF outcome = "ok" THEN Ran(BT_TRUE, <<>>, eng)
    ELSE Ran(BT_FALSE, <<"on_error">>, ReportError(eng))

\* bt_compile_module(ctx, source, name): the compiled module, or null after
\* the diagnostic went to on_error (a module is compiled, never run)
bt_compile_module(eng, source, name, outcome) ==
    IF outcome # "parse" THEN Ran(eng.heap + 1, <<>>, Alloc(eng))
    ELSE Ran(0, <<"on_error">>, ReportError(eng))

---------------------------------------------------------------------------
(* bolt-rs/src/types/context.rs, value.rs: the calls that take host strings *)

\* the ? operator on a failed as_c_str: the error is returned, converted by
\* #[from] NulError, before anything else is evaluated
Failed(eng) == Ran(Err(StringConversion), <<>>, eng)

\* a slip: the result of bt_run is not looked at
Context_run_ignores_result(eng, code, outcome) ==
    LET c == as_c_str(code) IN
    IF ~c.ok THEN Failed(eng)
    ELSE LET r == bt_run(eng, c.cstr, outcome) IN
         Ran(OkUnit, <<"bt_run">> \o r.calls, r.eng)

\* Context::run
Context_run(eng, code, outcome) ==
    LET c == as_c_str(code) IN
    IF ~c.ok THEN Failed(eng)
    ELSE LET r == bt_run(eng, c.cstr, outcome) IN
         Ran(IF r.ret = BT_TRUE THEN OkUnit ELSE Err(BoltError("Execution failed")),
             <<"bt_run">> \o r.calls, r.eng)

\* Context::compile_module
Context_compile_module(eng, source, name, outcome) ==
    LET source_c == as_c_str(source)
        name_c == as_c_str(name) IN
    IF ~source_c.ok THEN Failed(eng)
    ELSE IF ~name_c.ok THEN Failed(eng)
    ELSE LET r == bt_compile_module(eng, source_c.cstr, name_c.cstr, outcome)
             m == Module_from_raw(r.ret) IN
         Ran(IF m.some THEN OkObj(m.ptr) ELSE Err(BoltError("Module failed to compile")),
             <<"bt_compile_module">> \o r.calls, r.eng)

\* Context::make_enum_type
Context_make_enum_type(eng, name) ==
    LET c == as_c_str(name) IN
    IF ~c.ok THEN Failed(eng)
    ELSE LET r == bt_make_enum_type(eng, c.cstr) IN
         Ran(OkObj(r.ret), <<"bt_make_enum_type">>, r.eng)

\* Context::get_or_make_interned
Context_get_or_make_interned(eng, str) ==
    LET c == as_c_str(str) IN
    IF ~c.ok THEN Failed(eng)
    ELSE LET r == bt_get_or_make_interned(eng, c.cstr) IN
         Ran(OkObj(r.ret.addr), <<"bt_get_or_make_interned">>, r.eng)

\* Context::append_module_path: c_str? is evaluated as the argument of the call
Context_append_module_path(eng, spec) ==
    LET c == as_c_str(spec) IN
    IF ~c.ok THEN Failed(eng)
    ELSE LET r == bt_append_module_path(eng, c.cstr) IN
         Ran(OkUnit, <<"bt_append_module_path">>, r.eng)

\* impl MakeBoltValueWithContext for &str:
\* CString::new(*self).unwrap_or_else(|_| CString::new("").unwrap())
str_make_with_context(eng, str) ==
    LET c == CString_new(str)
        c_str == IF c.ok THEN c.cstr ELSE <<>>
        r == bt_make_string(eng, c_str) IN
    Ran(bt_string_value(r.ret), <<"bt_make_string", "bt_value">>, r.eng)

\* bt_def!(make_module -> Module)
Context_make_module(eng) ==
    LET r == bt_make_module(eng) IN Ran(r.ret, <<"bt_make_module">>, r.eng)

\* Context::register_module
Context_register_module(eng, name, module, keep) ==
    LET r == bt_register_module(eng, name, module, keep) IN
    Ran(OkUnit, <<"bt_register_module">>, r.eng)

\* bt_def_bool!(find_module(name: Value, suppress_errors: bool) -> Module)
Context_find_module(eng, name, suppress) ==
    LET r == bt_find_module(eng, name, suppress) IN
    Ran(Module_from_raw(r.ret), <<"bt_find_module">>, r.eng)

\* Context::create_module
Context_create_module(eng, name, keep) ==
    LET module == Context_make_module(eng)
        name_value == str_make_with_context(module.eng, name)
        reg == Context_register_module(name_value.eng, name_value.ret, module.ret, keep) IN
    Ran(OkObj(module.ret), module.calls \o name_value.calls \o reg.calls, reg.eng)

\* Context::get_module
Context_get_module(eng, name) ==
    LET name_value == str_make_with_context(eng, name)
        found == Context_find_module(name_value.eng, name_value.ret, FALSE) IN
    Ran(IF found.ret.some THEN OkObj(found.ret.ptr) ELSE Err(NotFound(name)),
        name_value.calls \o found.calls, found.eng)

---------------------------------------------------------------------------
(* bolt-sys/src/context.rs: modules in the lower crate                     *)

\* impl MakeBoltValueWithContext for &str of bolt-sys
sys_str_make_with_context(eng, str) ==
    LET c == CString_new(str)
        c_str == IF c.ok THEN c.cstr ELSE <<>>
        r == bt_make_string(eng, c_str) IN
    Ran(bt_string_value(r.ret), <<"bt_make_string", "bt_value">>, r.eng)

\* BoltContext::make_module
BoltContext_make_module(eng) ==
    LET r == bt_make_module(eng) IN
    Ran(IF r.ret = 0 THEN None ELSE SomeObj(r.ret), <<"bt_make_module">>, r.eng)

\* BoltContext::register_module
BoltContext_register_module(eng, name, module, keep) ==
    LET name_value == sys_str_make_with_context(eng, name)
        r == bt_register_module(name_value.eng, name_value.ret, module, keep) IN
    Ran(OkUnit, name_value.calls \o <<"bt_register_module">>, r.eng)

\* BoltContext::find_module
BoltContext_find_module(eng, name) ==
    LET name_value == sys_str_make_with_context(eng, name)
        r == bt_find_module(name_value.eng, name_value.ret, 0) IN
    Ran(IF r.ret = 0 THEN Err(NotFound(name)) ELSE OkObj(r.ret),
        name_value.calls \o <<"bt_find_module">>, r.eng)

---------------------------------------------------------------------------
(* The collector of an open context, modelled from the specification: the  *)
(* root stack, the manual reference counts and the collection cycle        *)

\* the heap objects the collector manages
NumGcObjs == 2
GcObjects == 1..NumGcObjs

\* an object: live or collected, its reference count, and whether the VM's
\* own stacks and objects reach it
LiveObj == [st |-> "live", refs |-> 0, vm |-> TRUE]

\* the collector's state: the objects, the root stack, the pause flag, and
\* whether pop_root was applied to an empty root stack
GcState(os, rs, paused, under) ==
    [objs |-> os, roots |-> rs, paused |-> paused, underflow |-> under]

Rooted(g, o) == \E i \in 1..Len(g.roots) : g.roots[i] = o

\* bt_push_root(ctx, obj)
bt_push_root(g, o) == [g EXCEPT !.roots = Append(@, o)]

\* bt_pop_root(ctx): removes the top root; on an empty stack the
\* specification gives it no meaning: the stack stays empty and the
\* underflow is recorded
bt_pop_root(g) ==
    IF g.roots = <<>> THEN [g EXCEPT !.underflow = TRUE]
    ELSE [g EXCEPT !.roots = SubSeq(@, 1, Len(@) - 1)]

\* bt_add_ref(ctx, obj) / bt_remove_ref(ctx, obj): the new count of obj; a
\* count of zero is not lowered
bt_add_ref(g, o) == [g EXCEPT !.objs[o].refs = @ + 1]
bt_remove_ref(g, o) == [g EXCEPT !.objs[o].refs = IF @ = 0 THEN 0 ELSE @ - 1]

\* bt_gc_pause(ctx) / bt_gc_unpause(ctx)
bt_gc_pause(g) == [g EXCEPT !.paused = TRUE]
bt_gc_unpause(g) == [g EXCEPT !.paused = FALSE]

\* the two liveness votes of the host, and the collector's own reachability
Eligible(g, o) ==
    /\ g.objs[o].st = "live"
    /\ ~g.objs[o].vm
    /\ ~Rooted(g, o)
    /\ g.objs[o].refs = 0

\* a collection cycle: every eligible object is collected
bt_collect(g) ==
    [g EXCEPT !.objs = [o \in GcObjects |->
                          IF Eligible(g, o) THEN [@[o] EXCEPT !.st = "collected"]
                          ELSE @[o]]]

---------------------------------------------------------------------------
(* bolt-rs/src/types/context.rs: the rooting calls (bt_def!, bt_def_prim!) *)

\* a slip: add_ref forwards to bt_remove_ref
Context_add_ref_removes(g, obj) == bt_remove_ref(g, obj)

\* bt_def_prim!(gc_pause), bt_def_prim!(gc_unpause), bt_def_prim!(pop_root),
\* bt_def!(push_root(root: Object)), bt_def_prim!(add_ref(obj: Object) -> u32),
\* bt_def_prim!(remove_ref(obj: Object) -> u32): each forwards to the engine
Context_gc_pause(g) == bt_gc_pause(g)
Context_gc_unpause(g) == bt_gc_unpause(g)
Context_pop_root(g) == bt_pop_root(g)
Context_push_root(g, root) == bt_push_root(g, root)
Context_add_ref(g, obj) == bt_add_ref(g, obj)
Context_remove_ref(g, obj) == bt_remove_ref(g, obj)

---------------------------------------------------------------------------
(* bolt-rs/src/types/context.rs and bolt-sys/src/context.rs: the file      *)
(* handlers installed by override_handlers                                 *)

\* the boxed files and the source buffers one run allocates; address 0 is
\* the null pointer
MaxHandles == 3
HandleIds == 1..MaxHandles

\* a Box<File>: the allocation (unused, boxed, freed, or misfreed: given back
\* to the allocator with another layout than it was allocated with) and the
\* File in it (none, open, closed)
NoHandle == [mem |-> "unused", file |-> "none"]
NoHandles == [h \in HandleIds |-> NoHandle]
NoSources == [b \in HandleIds |-> "unused"]

\* the paths the engine asks for: the null pointer, bytes that are not
\* UTF-8, and the names of: no file, a file that opens but cannot be read as
\* a UTF-8 string, a file with a nul byte in its text, a readable file
Paths == {"null", "not_utf8", "missing", "unreadable", "nul_inside", "good"}

\* the out_handle argument: the null pointer or the address of the slot
OutHandles == {"null", "slot"}

Fresh(H) == CHOOSE h \in HandleIds :
                H[h].mem = "unused" /\ \A g \in HandleIds : H[g].mem = "unused" => h <= g
FreshSource(S) == CHOOSE b \in HandleIds :
                S[b] = "unused" /\ \A c \in HandleIds : S[c] = "unused" => b <= c

\* Box::into_raw(Box::new(file))
Box_new_File(H) == [H EXCEPT ![Fresh(H)] = [mem |-> "boxed", file |-> "open"]]

\* let _ = Box::from_raw(*out_handle) with *out_handle: *mut c_void: the box
\* is a Box<c_void>; dropping it runs no destructor of File and gives the
\* allocation back with the layout of c_void, which the allocator either
\* tolerates (freed) or not (misfreed)
drop_Box_c_void(H, p, tolerant) ==
    [H EXCEPT ![p].mem = IF tolerant THEN "freed" ELSE "misfreed"]

\* let _file = Box::from_raw(handle as *mut std::fs::File): the File is
\* dropped (closed) and its allocation freed
drop_Box_File(H, p) == [H EXCEPT ![p] = [mem |-> "freed", file |-> "closed"]]

\* what read_file leaves: the returned source pointer, the slot, the boxes
\* and the source buffers
Read(ret, sl, H, S) == [ret |-> ret, slot |-> sl, handles |-> H, sources |-> S]

\* rust_read_file of bolt-rs
rust_read_file(path, out_handle, sl, H, S, tolerant) ==
    IF path = "null" THEN Read(0, sl, H, S)
    ELSE IF out_handle = "null" THEN Read(0, sl, H, S)
    ELSE IF path = "not_utf8" THEN Read(0, sl, H, S)
    ELSE IF path = "missing" THEN Read(0, sl, H, S)
    ELSE LET boxed == Box_new_File(H)
             raw == Fresh(H) IN
         IF path = "unreadable" THEN Read(0, 0, drop_Box_c_void(boxed, raw, tolerant), S)
         ELSE IF path = "nul_inside"
         THEN Read(0, 0, drop_Box_c_void(boxed, raw, tolerant), S)
         ELSE Read(FreshSource(S), raw, boxed, [S EXCEPT ![FreshSource(S)] = "live"])

\* rust_read_file of bolt-sys: the same text
sys_rust_read_file(path, out_handle, sl, H, S, tolerant) ==
    IF path = "null" THEN Read(0, sl, H, S)
    ELSE IF out_handle = "null" THEN Read(0, sl, H, S)
    ELSE IF path = "not_utf8" THEN Read(0, sl, H, S)
    ELSE IF path = "missing" THEN Read(0, sl, H, S)
    ELSE LET boxed == Box_new_File(H)
             raw == Fresh(H) IN
         IF path = "unreadable" THEN Read(0, 0, drop_Box_c_void(boxed, raw, tolerant), S)
         ELSE IF path = "nul_inside"
         THEN Read(0, 0, drop_Box_c_void(boxed, raw, tolerant), S)
         ELSE Read(FreshSource(S), raw, boxed, [S EXCEPT ![FreshSource(S)] = "live"])

\* rust_close_file: if !handle.is_null() { drop(Box::from_raw(handle as *mut File)) }
rust_close_file(H, handle) == IF handle # 0 THEN drop_Box_File(H, handle) ELSE H

\* rust_free_source: if !source.is_null() { drop(CString::from_raw(source)) }
rust_free_source(S, source) == IF source # 0 THEN [S EXCEPT ![source] = "freed"] ELSE S

---------------------------------------------------------------------------
(* bolt-rs/src/types/context.rs and bolt-sys/src/context.rs: the allocator *)
(* handlers installed by override_handlers, over std::alloc                 *)

\* the blocks one run allocates, and the sizes the engine asks for
MaxBlocks == 2
BlockIds == 1..MaxBlocks
Sizes == {1, 2, 8}

NoBlocks == [b \in BlockIds |-> [state |-> "unused", size |-> 0]]

FreshBlock(B) == CHOOSE b \in BlockIds :
                    B[b].state = "unused" /\ \A c \in BlockIds : B[c].state = "unused" => b <= c

\* what a handler did: the pointer it returned, the blocks, the size of the
\* Layout it gave std::alloc and the size the block had
Handled(ret, B, layout, held) == [ret |-> ret, blocks |-> B, layout |-> layout, held |-> held]

\* std::alloc::dealloc(ptr, layout) and std::alloc::realloc(ptr, layout, new):
\* a layout other than the block's own is undefined behaviour, which the
\* allocator either tolerates or not (the block is then lost: misfreed)
std_dealloc(B, ptr, layout, tolerant) ==
    [B EXCEPT ![ptr].state =
        IF layout = B[ptr].size \/ tolerant THEN "freed" ELSE "misfreed"]

std_realloc(B, ptr, layout, size, tolerant) ==
    IF layout = B[ptr].size \/ tolerant
    THEN [B EXCEPT ![ptr].size = size]
    ELSE [B EXCEPT ![ptr].state = "misfreed"]

\* std::alloc::alloc(Layout::array::<u8>(size).unwrap_unchecked())
rust_alloc(B, size) ==
    Handled(FreshBlock(B), [B EXCEPT ![FreshBlock(B)] = [state |-> "live", size |-> size]],
            size, size)

\* if !ptr.is_null() { std::alloc::dealloc(ptr as *mut u8, Layout::new::<u8>()) }
rust_free(B, ptr, tolerant) ==
    IF ptr # 0
    THEN Handled(0, std_dealloc(B, ptr, 1, tolerant), 1, B[ptr].size)
    ELSE Handled(0, B, 0, 0)

\* null: alloc(Layout::array::<u8>(size)); else realloc(ptr, Layout::new::<u8>(), size)
rust_realloc(B, ptr, size, tolerant) ==
    IF ptr = 0 THEN rust_alloc(B, size)
    ELSE Handled(ptr, std_realloc(B, ptr, 1, size, tolerant), 1, B[ptr].size)

\* the handlers of bolt-sys: the same text
sys_rust_alloc(B, size) ==
    Handled(FreshBlock(B), [B EXCEPT ![FreshBlock(B)] = [state |-> "live", size |-> size]],
            size, size)

sys_rust_free(B, ptr, tolerant) ==
    IF ptr # 0
    THEN Handled(0, std_dealloc(B, ptr, 1, tolerant), 1, B[ptr].size)
    ELSE Handled(0, B, 0, 0)

sys_rust_realloc(B, ptr, size, tolerant) ==
    IF ptr = 0 THEN sys_rust_alloc(B, size)
    ELSE Handled(ptr, std_realloc(B, ptr, 1, size, tolerant), 1, B[ptr].size)

---------------------------------------------------------------------------
(* Signatures built from a list of parameter types: the length narrowed to *)
(* a u8 (bolt-rs wrappers.rs bt_def_slice!, value.rs, context.rs; bolt-sys *)
(* bt_value/mod.rs)                                                        *)

\* `as u8` of a usize
AsU8(n) == n % 256

Min(a, b) == IF a <= b THEN a ELSE b

\* what the engine is handed: the parameter count and a buffer of pointers
Signature(count, buffer) == [count |-> count, buffer |-> buffer]

\* a slip: the buffer is cut one short, .take(u8::MAX as usize - 1)
make_signature_type_cut_short(k) == Signature(AsU8(k), Min(k, 254))

\* bt_def_slice!(make_signature_type(ret: Type, types: &[Type]) -> Type):
\* the pointers are collected with .take(u8::MAX as usize), the count is
\* types.len() as u8
make_signature_type(k) == Signature(AsU8(k), Min(k, 255))

\* CallSignature::make_type: every pointer collected, self.args.len() as u8
CallSignature_make_type(k) == Signature(AsU8(k), k)

\* Context::module_export_native: every pointer collected, args.len() as u8
Context_module_export_native(k) == Signature(AsU8(k), k)

\* bolt-sys CallSignature::make_type
sys_CallSignature_make_type(k) == Signature(AsU8(k), k)

---------------------------------------------------------------------------
(* Tableshapes, modelled from the specification: a shape has a parent link *)
(* and a field layout keyed by Value; lookup searches the local layout     *)
(* first and falls back to the parent chain                                *)

\* the tableshape types of the context (0 is the null pointer), the keys of
\* their fields and the types fields are declared with
NumShapes == 3
ShapeIds == 1..NumShapes
FieldKeys == {"x", "y"}
FieldTypes == {11, 12}

\* a shape without parent and without fields; unlinked records that a
\* parent link was removed
NoShapes ==
    [t \in ShapeIds |-> [parent |-> 0, layout |-> [k \in FieldKeys |-> 0],
                         unlinked |-> FALSE]]

\* bt_tableshape_set_parent(tshp, parent); a null parent removes the link
bt_tableshape_set_parent(S, tshp, parent) ==
    [S EXCEPT ![tshp].parent = parent,
              ![tshp].unlinked = (parent = 0 /\ S[tshp].parent # 0)]

\* bt_tableshape_add_layout(ctx, tshp, key_type, key, type)
bt_tableshape_add_layout(S, tshp, key, type) ==
    [S EXCEPT ![tshp].layout[key] = type]

\* the type of the field a lookup finds, null if none: the local layout
\* first, then the parent's, up to a shape without parent
RECURSIVE bt_type_get_field_type(_, _, _)
bt_type_get_field_type(S, tshp, key) ==
    IF S[tshp].layout[key] # 0 THEN S[tshp].layout[key]
    ELSE IF S[tshp].parent = 0 THEN 0
    ELSE bt_type_get_field_type(S, S[tshp].parent, key)

\* bt_type_get_field(ctx, tshp, key, &value): BT_TRUE and the field's entry
\* written to value, or BT_FALSE and value left alone
bt_type_get_field(S, tshp, key, value) ==
    LET found == bt_type_get_field_type(S, tshp, key) IN
    IF found # 0 THEN [result |-> BT_TRUE, value |-> bt_value(found)]
    ELSE [result |-> BT_FALSE, value |-> value]

\* whether parent's chain reaches tshp (the link would close a cycle)
RECURSIVE Reaches(_, _, _)
Reaches(S, from, to) ==
    IF from = 0 THEN FALSE
    ELSE IF from = to THEN TRUE
    ELSE Reaches(S, S[from].parent, to)

---------------------------------------------------------------------------
(* bolt-rs/src/types/context.rs: the tableshape calls                      *)

\* bt_def!(tableshape_set_parent(tshp: Type, parent: Type))
Context_tableshape_set_parent(S, tshp, parent) == bt_tableshape_set_parent(S, tshp, parent)

Context_tableshape_add_layout(S, tshp, key, type) ==
    bt_tableshape_add_layout(S, tshp, key, type)

SomeValue(v) == [some |-> TRUE, value |-> v]

\* std::mem::zeroed() as a bt_Value
ZeroedValue == [tags |-> {}, num |-> 0, ptr |-> 0]

\* a slip: the result is tested the wrong way round, if result == 0
Context_type_get_field_inverted(S, tshp, key) ==
    LET r == bt_type_get_field(S, tshp, key, ZeroedValue) IN
    IF r.result = 0 THEN SomeValue(r.value) ELSE None

\* if result != 0 { Some(Value::from_raw(value)) } else { None }
Context_type_get_field(S, tshp, key) ==
    LET r == bt_type_get_field(S, tshp, key, ZeroedValue) IN
    IF r.result # 0 THEN SomeValue(r.value) ELSE None

\* Type::from_raw(ptr)
Context_type_get_field_type(S, tshp, key) ==
    Type_from_raw(bt_type_get_field_type(S, tshp, key))

---------------------------------------------------------------------------
(* Engine threads (bt_make_thread / bt_destroy_thread), modelled from the  *)
(* specification: not collected, created and destroyed explicitly          *)

MaxThreads == 2
ThreadIds == 1..MaxThreads

NoThreads == [t \in ThreadIds |-> [st |-> "unused", destroys |-> 0]]

FreshThread(T) == CHOOSE t \in ThreadIds :
                    T[t].st = "unused" /\ \A u \in ThreadIds : T[u].st = "unused" => t <= u

bt_make_thread(T) == [ptr |-> FreshThread(T), threads |-> [T EXCEPT ![FreshThread(T)].st = "live"]]

bt_destroy_thread(T, p) ==
    [T EXCEPT ![p] = [st |-> "destroyed", destroys |-> @.destroys + 1]]

---------------------------------------------------------------------------
(* bolt-rs thread.rs, context.rs and bolt-sys context.rs: the wrappers     *)
(* around bt_Thread                                                        *)

\* Thread::from_raw: NonNull::new(ptr).map(..); BoltThread::from_raw the same
Thread_from_raw(p) == IF p = 0 THEN None ELSE SomeObj(p)
BoltThread_from_raw(p) == IF p = 0 THEN None ELSE SomeObj(p)

\* #[derive(Clone)] on Thread: the pointer is copied
Thread_clone(p) == p

\* bt_def!(make_thread -> Thread): Thread::from_raw_unchecked(bt_make_thread(ctx))
Context_make_thread(T) == bt_make_thread(T)

\* BoltContext::make_thread: BoltThread::from_raw(bt_make_thread(self.ctx))
BoltContext_make_thread(T) ==
    LET o == bt_make_thread(T) IN
    [ptr |-> BoltThread_from_raw(o.ptr).ptr, threads |-> o.threads]

\* bt_def!(destroy_thread(thread: Thread)): bt_destroy_thread(ctx, thread.as_ptr())
Context_destroy_thread(T, p) == bt_destroy_thread(T, p)
BoltContext_destroy_thread(T, p) == bt_destroy_thread(T, p)

\* the Thread / BoltThread values one run creates
MaxThreadHandles == 3
ThreadHandleIds == 1..MaxThreadHandles
NoThreadHandle == [st |-> "unused", ptr |-> 0, crate |-> "none"]

---------------------------------------------------------------------------
(* Defaults of the state a specification does not use                      *)

NoCall == [op |-> "none"]
NoRead == [op |-> "none"]

InitModDefaults ==
    /\ modules = NoModules
    /\ heapObjs = 0
    /\ registered = [n \in HostStrings |-> {}]
    /\ errLog = 0
    /\ lastCall = NoCall

\* what the host has asked for so far: its push_root / pop_root calls, the
\* stack of roots it pushed and has not popped, and per object its add_ref
\* calls minus its remove_ref calls
NoGcHist ==
    [op |-> "none", pushes |-> 0, pops |-> 0, underflow |-> FALSE, stack |-> <<>>,
     held |-> [o \in GcObjects |-> 0]]

InitGcDefaults ==
    /\ objs = [o \in GcObjects |-> LiveObj]
    /\ roots = <<>>
    /\ gcPaused = FALSE
    /\ gcHist = NoGcHist

NoAlloc == [op |-> "none"]
NoSig == [op |-> "none"]

InitAllocDefaults ==
    /\ blocks = NoBlocks
    /\ lastAlloc = NoAlloc

NoField == [op |-> "none"]

InitShapeDefaults ==
    /\ shapes = NoShapes
    /\ lastField = NoField

NoThrOp == [op |-> "none", ptr |-> 0, live |-> TRUE]

InitThrDefaults ==
    /\ threads = NoThreads
    /\ thandles = [h \in ThreadHandleIds |-> NoThreadHandle]
    /\ lastThr = NoThrOp

InitExtDefaults ==
    /\ InitAllocDefaults
    /\ lastSig = NoSig
    /\ InitShapeDefaults
    /\ InitThrDefaults

InitFileDefaults ==
    /\ slot = 0
    /\ fileHandles = NoHandles
    /\ sources = NoSources
    /\ lastRead = NoRead

---------------------------------------------------------------------------
(* The header under mutation: the inputs                                   *)

\* the bits an initial header may have set: the mark bit, bit 1, pointer
\* bits at both ends of the pointer range, type bits at both ends of the tag
InitBits == {0, 1, 2, 55, 56, 59, 63}
InitMasks == SUBSET InitBits

\* type tags written by set_type: the twelve object kinds and larger 8-bit tags
TypeTags == (0..11) \cup {127, 128, 255}

\* u64 values passed to set_next_ptr: aligned pointers, and words with bits
\* outside the pointer range (odd, bit 1, bits of the tag byte, all ones)
PtrArgs ==
    { {}, {2}, {3, 55}, 2..55, {0}, {1}, {1, 2}, {56}, {0, 3, 63}, Bits64 }

NoOp == [op |-> "none", tag |-> 0, ptr |-> {}]

InitValueDefaults ==
    /\ val = bt_make_null
    /\ origin = "engine"
    /\ probe = [d \in Discriminants |-> "?"]
    /\ thread = [args |-> <<>>, returned |-> bt_make_null]
    /\ last = [op |-> "none"]

InitMask ==
    /\ mask \in InitMasks
    /\ prevMask = mask
    /\ lastOp = NoOp
    /\ lastMark = is_marked(mask)
    /\ lastType = get_type(mask)
    /\ lastPtr = get_next_ptr(mask)
    /\ InitValueDefaults
    /\ InitCtxDefaults /\ InitModDefaults /\ InitGcDefaults /\ InitFileDefaults
    /\ InitExtDefaults

SetMark ==
    /\ mask' = set_mark(mask)
    /\ prevMask' = mask
    /\ lastOp' = [op |-> "set_mark", tag |-> 0, ptr |-> {}]
    /\ lastMark' = TRUE
    /\ UNCHANGED hostVars
    /\ UNCHANGED <<lastType, lastPtr, val, origin, probe, thread, last>>

ClearMark ==
    /\ mask' = clear_mark(mask)
    /\ prevMask' = mask
    /\ lastOp' = [op |-> "clear_mark", tag |-> 0, ptr |-> {}]
    /\ lastMark' = FALSE
    /\ UNCHANGED hostVars
    /\ UNCHANGED <<lastType, lastPtr, val, origin, probe, thread, last>>

SetType ==
    \E t \in TypeTags :
        /\ mask' = set_type(mask, FromNat(t))
        /\ prevMask' = mask
        /\ lastOp' = [op |-> "set_type", tag |-> t, ptr |-> {}]
        /\ lastType' = t
        /\ UNCHANGED hostVars
        /\ UNCHANGED <<lastMark, lastPtr, val, origin, probe, thread, last>>

SetNextPtr ==
    \E p \in PtrArgs :
        /\ mask' = set_next_ptr(mask, p)
        /\ prevMask' = mask
        /\ lastOp' = [op |-> "set_next_ptr", tag |-> 0, ptr |-> p]
        /\ lastPtr' = p
        /\ UNCHANGED hostVars
        /\ UNCHANGED <<lastMark, lastType, val, origin, probe, thread, last>>

NextMask == SetMark \/ ClearMark \/ SetType \/ SetNextPtr

SpecMask == InitMask /\ [][NextMask]_vars

\* u32 arguments of set_type that are no 8-bit tag: bit 8 alone, bits on both
\* sides of bit 8, bits 16 and above, and 2^31 - 1
WideTags == {256, 257, 511, 65541, 2147483647}

\* set_type with any u32: what the 8-bit field can hold of t is t mod 256
SetTypeAny ==
    \E t \in TypeTags \cup WideTags :
        /\ mask' = set_type(mask, FromNat(t))
        /\ prevMask' = mask
        /\ lastOp' = [op |-> "set_type", tag |-> t, ptr |-> {}]
        /\ lastType' = t % 256
        /\ UNCHANGED hostVars
        /\ UNCHANGED <<lastMark, lastPtr, val, origin, probe, thread, last>>

NextHeader == SetMark \/ ClearMark \/ SetTypeAny \/ SetNextPtr

SpecHeader == InitMask /\ [][NextHeader]_vars

---------------------------------------------------------------------------
(* Values under inspection: the inputs and the operations                  *)

InitMaskDefaults ==
    /\ mask = {}
    /\ prevMask = {}
    /\ lastOp = NoOp
    /\ lastMark = FALSE
    /\ lastType = 0
    /\ lastPtr = {}

\* the numbers, bools and enum payloads the engine hands over
Numbers == {-1, 0, 6}
Bools == {0, 1}
EnumVals == {0, 3}

\* the values an engine constructor makes; an object value may carry the
\* null pointer (a failed allocation wrapped by bt_value)
EngineValues ==
    {bt_make_null}
        \cup {bt_make_bool(b) : b \in Bools}
        \cup {bt_make_number(x) : x \in Numbers}
        \cup {bt_make_enum_val(e) : e \in EnumVals}
        \cup {bt_value(p) : p \in {0} \cup Addresses}

\* bit patterns no engine constructor makes (Value::from_raw and the public
\* field accept any bt_Value): they answer to no discriminant or to several
RawValues ==
    { [tags |-> {}, num |-> 0, ptr |-> 0],
      [tags |-> {}, num |-> 0, ptr |-> 3],
      [tags |-> {"bool", "number"}, num |-> 1, ptr |-> 0],
      [tags |-> {"null", "object"}, num |-> 0, ptr |-> 2],
      [tags |-> {"number", "enum"}, num |-> 6, ptr |-> 0],
      [tags |-> {"enum", "object"}, num |-> 3, ptr |-> 4] }

NoProbe == [d \in Discriminants |-> "?"]
NoLast == [op |-> "none"]
Answer(b) == IF b THEN "yes" ELSE "no"

InitValue ==
    /\ InitMaskDefaults
    /\ val \in EngineValues
    /\ origin = "engine"
    /\ probe = NoProbe
    /\ thread = [args |-> <<>>, returned |-> bt_make_null]
    /\ last = NoLast
    /\ InitCtxDefaults /\ InitModDefaults /\ InitGcDefaults /\ InitFileDefaults
    /\ InitExtDefaults

\* f64::make, Type::make, Module::make: the host builds a value
F64Make ==
    \E x \in Numbers :
        /\ val' = f64_make(x)
        /\ origin' = "engine"
        /\ probe' = NoProbe
        /\ last' = NoLast
        /\ UNCHANGED hostVars
        /\ UNCHANGED <<maskVars, thread>>

TypeMake ==
    \E p \in {a \in Addresses : get_type(Heap[a].mask) = bt_ObjectType_BT_OBJECT_TYPE_TYPE} :
        /\ val' = Type_make(p)
        /\ origin' = "engine"
        /\ probe' = NoProbe
        /\ last' = NoLast
        /\ UNCHANGED hostVars
        /\ UNCHANGED <<maskVars, thread>>

ModuleMake ==
    \E p \in {a \in Addresses : get_type(Heap[a].mask) = bt_ObjectType_BT_OBJECT_TYPE_MODULE} :
        /\ val' = Module_make(p)
        /\ origin' = "engine"
        /\ probe' = NoProbe
        /\ last' = NoLast
        /\ UNCHANGED hostVars
        /\ UNCHANGED <<maskVars, thread>>

\* the engine hands the host a value it made (an argument, a result, a field)
EngineValue ==
    \E v \in EngineValues :
        /\ val' = v
        /\ origin' = "engine"
        /\ probe' = NoProbe
        /\ last' = NoLast
        /\ UNCHANGED hostVars
        /\ UNCHANGED <<maskVars, thread>>

\* Value::from_raw on a bit pattern of the host's own
FromRaw ==
    \E v \in RawValues :
        /\ val' = v
        /\ origin' = "raw"
        /\ probe' = NoProbe
        /\ last' = NoLast
        /\ UNCHANGED hostVars
        /\ UNCHANGED <<maskVars, thread>>

\* one of the five predicates is asked about val
Ask(d, r) ==
    /\ probe' = [probe EXCEPT ![d] = Answer(r.ret)]
    /\ UNCHANGED hostVars
    /\ UNCHANGED <<maskVars, val, origin, thread, last>>

IsNull == Ask("null", Value_is_null(val))
IsBool == Ask("bool", Value_is_bool(val))
IsNumber == Ask("number", Value_is_number(val))
IsEnum == Ask("enum", Value_is_enum(val))
IsObject == Ask("object", Value_is_object(val))

\* a conversion is applied to val
Apply(name, r) ==
    /\ last' = [op |-> name, ret |-> r.ret, calls |-> r.calls]
    /\ UNCHANGED hostVars
    /\ UNCHANGED <<maskVars, val, origin, probe, thread>>

AsNumber == Apply("as_number", Value_as_number(val))
AsBool == Apply("as_bool", Value_as_bool(val))
AsEnum == Apply("as_enum", Value_as_enum(val))
AsObject == Apply("as_object", Value_as_object(val))
FromValue == Apply("from_value", ValueType_from_value(val))
SysFromValue == Apply("sys_from_value", sys_ValueType_from_value(val))
F64From == Apply("f64_from", f64_from(val))
SysF64From == Apply("sys_f64_from", sys_f64_from(val))
TypeFrom == Apply("Type_from", Type_from(val))
SysTypeFrom == Apply("sys_Type_from", sys_Type_from(val))
ModuleFrom == Apply("Module_from", Module_from(val))
SysModuleFrom == Apply("sys_Module_from", sys_Module_from(val))

SysResolveType == Apply("sys_resolve_type", BoltContext_resolve_type(val))

\* <f64 as FromBoltValue>::from(x.make()): a number made by the host and
\* extracted again
RoundTrip(name, x, v, r) ==
    /\ val' = v
    /\ origin' = "engine"
    /\ probe' = NoProbe
    /\ last' = [op |-> name, x |-> x, ret |-> r.ret, calls |-> r.calls]
    /\ UNCHANGED hostVars
    /\ UNCHANGED <<maskVars, thread>>

F64RoundTrip ==
    \E x \in Numbers : RoundTrip("f64_round_trip", x, f64_make(x), f64_from(f64_make(x)))

SysF64RoundTrip ==
    \E x \in Numbers :
        RoundTrip("sys_f64_round_trip", x, sys_f64_make(x), sys_f64_from(sys_f64_make(x)))

NextValue ==
    \/ F64RoundTrip \/ SysF64RoundTrip \/ SysResolveType
    \/ F64Make \/ TypeMake \/ ModuleMake \/ EngineValue \/ FromRaw
    \/ IsNull \/ IsBool \/ IsNumber \/ IsEnum \/ IsObject
    \/ AsNumber \/ AsBool \/ AsEnum \/ AsObject
    \/ FromValue \/ SysFromValue
    \/ F64From \/ SysF64From
    \/ TypeFrom \/ SysTypeFrom \/ ModuleFrom \/ SysModuleFrom

Spec == InitValue /\ [][NextValue]_vars

---------------------------------------------------------------------------
(* The thread of a native call: the argument slots and get_arg             *)

\* the most arguments a call carries, and the values they are drawn from
MaxArgc == 3
ArgValues ==
    { bt_make_number(1), bt_make_number(5), bt_make_null, bt_value(2),
      bt_value(3) }

\* the indices asked for (u8): every slot, the first two past the end, and 255
ArgIndices == (0..(MaxArgc + 1)) \cup {255}

InitThread ==
    /\ InitMaskDefaults
    /\ val = bt_make_null
    /\ origin = "engine"
    /\ probe = NoProbe
    /\ thread = [args |-> <<>>, returned |-> bt_make_null]
    /\ last = NoLast
    /\ InitCtxDefaults /\ InitModDefaults /\ InitGcDefaults /\ InitFileDefaults
    /\ InitExtDefaults

\* the VM builds the frame of a native call, one argument at a time
VmPushArg ==
    \E v \in ArgValues :
        /\ Len(thread.args) < MaxArgc
        /\ thread' = [thread EXCEPT !.args = Append(@, v)]
        /\ last' = NoLast
        /\ UNCHANGED hostVars
        /\ UNCHANGED <<maskVars, val, origin, probe>>

\* the native call returns and its frame is gone
VmReturn ==
    /\ thread.args # <<>>
    /\ thread' = [thread EXCEPT !.args = <<>>]
    /\ last' = NoLast
    /\ UNCHANGED hostVars
    /\ UNCHANGED <<maskVars, val, origin, probe>>

\* the types a native function asks its arguments as
ArgTypes == {"f64", "Type", "Module"}

GetArg(name, idx, T, r) ==
    /\ last' = [op |-> name, idx |-> idx, T |-> T, ret |-> r.ret, calls |-> r.calls]
    /\ UNCHANGED hostVars
    /\ UNCHANGED <<maskVars, val, origin, probe, thread>>

\* Thread::get_arg::<T>(idx) of bolt-rs
ThreadGetArg ==
    \E idx \in ArgIndices, T \in ArgTypes :
        GetArg("get_arg", idx, T, Thread_get_arg(thread, idx, T))

\* BoltThread::get_arg::<T>(idx) of bolt-sys
BoltThreadGetArg ==
    \E idx \in ArgIndices, T \in ArgTypes :
        GetArg("sys_get_arg", idx, T, BoltThread_get_arg(thread, idx, T))

NextThread == VmPushArg \/ VmReturn \/ ThreadGetArg \/ BoltThreadGetArg

SpecThread == InitThread /\ [][NextThread]_vars

---------------------------------------------------------------------------
(* The thread of a native call: the callback, the unchecked reads and the  *)
(* result slot                                                             *)

\* the most arguments the script passes, and the values they are drawn
\* from: numbers, null, a Type object and a Module object
MaxNativeArgc == 2
NativeArgValues ==
    { bt_make_number(1), bt_make_number(5), bt_make_null, bt_value(2), bt_value(4) }

\* the indices asked for: every slot and the first past the end
NativeIndices == 0..MaxNativeArgc

\* what the stack holds past the frame, for an index that is past it
Beyond(idx) ==
    IF idx < Len(thread.args) THEN {bt_make_null} ELSE {bt_make_null, bt_value(2)}

VmPushNativeArg ==
    \E v \in NativeArgValues :
        /\ Len(thread.args) < MaxNativeArgc
        /\ thread' = [thread EXCEPT !.args = Append(@, v)]
        /\ last' = NoLast
        /\ UNCHANGED hostVars
        /\ UNCHANGED <<maskVars, val, origin, probe>>

\* get_arg_unchecked::<T>(idx); an index past the frame reads a slot the
\* frame does not own
ThreadGetArgUnchecked ==
    \E idx \in NativeIndices, T \in ArgTypes : \E beyond \in Beyond(idx) :
        GetArg("get_arg_unchecked", idx, T, Thread_get_arg_unchecked(thread, idx, T, beyond))

BoltThreadGetArgUnchecked ==
    \E idx \in NativeIndices, T \in ArgTypes : \E beyond \in Beyond(idx) :
        GetArg("sys_get_arg_unchecked", idx, T,
               BoltThread_get_arg_unchecked(thread, idx, T, beyond))

\* a call made through the thread has left its result
VmCallReturns ==
    \E v \in NativeArgValues :
        /\ thread' = [thread EXCEPT !.returned = v]
        /\ last' = NoLast
        /\ UNCHANGED hostVars
        /\ UNCHANGED <<maskVars, val, origin, probe>>

GetReturned(name, T, r) ==
    /\ last' = [op |-> name, T |-> T, ret |-> r.ret, calls |-> r.calls]
    /\ UNCHANGED hostVars
    /\ UNCHANGED <<maskVars, val, origin, probe, thread>>

ThreadGetReturned ==
    \E T \in ArgTypes : GetReturned("get_returned", T, Thread_get_returned(thread, T))
BoltThreadGetReturned ==
    \E T \in ArgTypes : GetReturned("sys_get_returned", T, BoltThread_get_returned(thread, T))
ThreadGetReturnedUnchecked ==
    \E T \in ArgTypes :
        GetReturned("get_returned_unchecked", T, Thread_get_returned_unchecked(thread, T))
BoltThreadGetReturnedUnchecked ==
    \E T \in ArgTypes :
        GetReturned("sys_get_returned_unchecked", T,
                    BoltThread_get_returned_unchecked(thread, T))

\* the script calls the exported native function with the arguments of the
\* frame; the callback runs and the script observes the result slot
NativeCall(name, n) ==
    /\ thread' = n.thread
    /\ last' = [op |-> name, argc |-> n.argc, seen |-> n.seen, passed |-> thread.args,
                before |-> thread.returned]
    /\ UNCHANGED hostVars
    /\ UNCHANGED <<maskVars, val, origin, probe>>

CallAddNumbers == NativeCall("native_call", add_numbers(thread))
SysCallAddNumbers == NativeCall("sys_native_call", sys_add_numbers(thread))

NextNative ==
    \/ VmPushNativeArg \/ VmReturn
    \/ ThreadGetArgUnchecked \/ BoltThreadGetArgUnchecked
    \/ VmCallReturns
    \/ ThreadGetReturned \/ BoltThreadGetReturned
    \/ ThreadGetReturnedUnchecked \/ BoltThreadGetReturnedUnchecked
    \/ CallAddNumbers \/ SysCallAddNumbers

SpecNative == InitThread /\ [][NextNative]_vars

---------------------------------------------------------------------------
(* The lifecycle of contexts and of the handles derived from them          *)

\* the raw pointers a host can hand to from_raw: null and every context
\* pointer the engine has given out
KnownPtrs == {0} \cup {e \in Engines : engines[e].st # "free"}

Unused == {w \in WrapperIds : wrappers[w].st = "unused"}
Live == {w \in WrapperIds : wrappers[w].st = "live"}
NextWrapper == CHOOSE w \in Unused : \A u \in Unused : w <= u

\* the other live wrappers that carry the pointer of wrapper w
Sharers(w) == {u \in Live \ {w} : wrappers[u].ptr = wrappers[w].ptr}

InitContext ==
    /\ InitMaskDefaults
    /\ InitValueDefaults
    /\ InitCtxDefaults /\ InitModDefaults /\ InitGcDefaults /\ InitFileDefaults
    /\ InitExtDefaults

Construct(name, crate, r) ==
    /\ engines' = r.engines
    /\ wrappers' = IF r.panic THEN wrappers
                   ELSE [wrappers EXCEPT ![NextWrapper] =
                            [st |-> "live", ptr |-> r.ptr, crate |-> crate, via |-> "new"]]
    /\ lastCtx' = [op |-> name, ptr |-> r.ptr, panic |-> r.panic, sharers |-> 0,
                   open |-> r.ptr \in Engines]
    /\ UNCHANGED <<maskVars, valueVars, thread, extVars, handles, modVars, gcVars, fileVars>>

\* Context::new() of bolt-rs; the engine may fail to create the context
ContextNew ==
    /\ Unused # {}
    /\ \E ok \in BOOLEAN : Construct("new", "rs", Context_new(engines, ok))

\* BoltContext::new() of bolt-sys
BoltContextNew ==
    /\ Unused # {}
    /\ \E ok \in BOOLEAN : Construct("sys_new", "sys", BoltContext_new(engines, ok))

Wrap(name, crate, via, o) ==
    /\ wrappers' = IF o.some
                   THEN [wrappers EXCEPT ![NextWrapper] =
                            [st |-> "live", ptr |-> o.ptr, crate |-> crate, via |-> via]]
                   ELSE wrappers
    /\ lastCtx' = [op |-> name, ptr |-> IF o.some THEN o.ptr ELSE 0, panic |-> FALSE,
                   sharers |-> 0, open |-> FALSE]
    /\ UNCHANGED <<maskVars, valueVars, thread, extVars, engines, handles, modVars, gcVars, fileVars>>

\* ctx.clone() on a live Context
ContextClone ==
    /\ Unused # {}
    /\ \E w \in Live :
        /\ wrappers[w].crate = "rs"
        /\ Wrap("clone", "rs", "clone", SomeObj(Context_clone(wrappers[w].ptr)))

\* Context::from_raw(ptr)
ContextFromRaw ==
    /\ Unused # {}
    /\ \E p \in KnownPtrs : Wrap("from_raw", "rs", "from_raw", Context_from_raw(p))

\* BoltContext::from_raw(ptr)
BoltContextFromRaw ==
    /\ Unused # {}
    /\ \E p \in KnownPtrs : Wrap("sys_from_raw", "sys", "from_raw", BoltContext_from_raw(p))

\* a wrapper goes out of scope: impl Drop
DropContext ==
    \E w \in Live :
        /\ engines' = IF wrappers[w].crate = "rs"
                      THEN Context_drop(engines, wrappers[w].ptr)
                      ELSE BoltContext_drop(engines, wrappers[w].ptr)
        /\ wrappers' = [wrappers EXCEPT ![w].st = "dropped"]
        /\ lastCtx' = [op |-> "drop", ptr |-> wrappers[w].ptr, panic |-> FALSE,
                       sharers |-> Cardinality(Sharers(w)),
                       open |-> wrappers[w].ptr \in Engines
                                /\ engines[wrappers[w].ptr].st = "open"]
        /\ UNCHANGED <<maskVars, valueVars, thread, extVars, handles, modVars, gcVars, fileVars>>

\* the kinds of handle a context gives out (bt_def!(make_module -> Module),
\* bt_def!(make_thread -> Thread))
HandleKinds == {"Module", "Thread"}

\* ctx.make_module() / ctx.make_thread() on a live wrapper of an open
\* context: the host now holds a handle, a Copy value with no lifetime
MakeHandle ==
    \E w \in Live, k \in HandleKinds :
        /\ wrappers[w].crate = "rs"
        /\ wrappers[w].ptr \in Engines
        /\ engines[wrappers[w].ptr].st = "open"
        /\ handles' = handles \cup {[ctx |-> wrappers[w].ptr, kind |-> k]}
        /\ lastCtx' = [op |-> "make_handle", ptr |-> wrappers[w].ptr, panic |-> FALSE,
                       sharers |-> 0, open |-> TRUE]
        /\ UNCHANGED <<maskVars, valueVars, thread, extVars, engines, wrappers, modVars, gcVars,
                       fileVars>>

\* the host passes a handle it holds to an engine operation that takes no
\* context (Module::object_type reads the header, Thread::argc calls bt_argc)
UseHandle ==
    \E h \in handles :
        /\ lastCtx' = [op |-> "use_handle", ptr |-> h.ctx, panic |-> FALSE, sharers |-> 0,
                       open |-> engines[h.ctx].st = "open"]
        /\ UNCHANGED <<maskVars, valueVars, thread, extVars, engines, wrappers, handles, modVars,
                       gcVars, fileVars>>

NextContext ==
    \/ ContextNew \/ BoltContextNew
    \/ ContextClone \/ ContextFromRaw \/ BoltContextFromRaw
    \/ DropContext
    \/ MakeHandle \/ UseHandle

SpecContext == InitContext /\ [][NextContext]_vars

---------------------------------------------------------------------------
(* One open context driven through the calls that take host strings        *)

\* the objects one run allocates and the errors it reports
MaxHeapObjs == 5
MaxErrors == 1

\* the engine state the variables hold
Eng == [modules |-> modules, heap |-> heapObjs, errs |-> errLog]

InitModule ==
    /\ InitMaskDefaults
    /\ InitValueDefaults
    /\ InitCtxDefaults /\ InitModDefaults /\ InitGcDefaults /\ InitFileDefaults
    /\ InitExtDefaults

\* a call returns r: the engine state it leaves, and a record of the call
Call(name, input, input2, outcome, r) ==
    /\ r.eng.heap <= MaxHeapObjs
    /\ r.eng.errs <= MaxErrors
    /\ modules' = r.eng.modules
    /\ heapObjs' = r.eng.heap
    /\ errLog' = r.eng.errs
    /\ lastCall' = [op |-> name, input |-> input, input2 |-> input2, outcome |-> outcome,
                    ret |-> r.ret, calls |-> r.calls, before |-> Eng]
    /\ UNCHANGED <<maskVars, valueVars, thread, extVars, ctxVars, gcVars, fileVars>>

Run ==
    \E code \in SourceTexts, outcome \in Outcomes :
        /\ Call("run", code, <<>>, outcome, Context_run(Eng, code, outcome))
        /\ UNCHANGED registered

CompileModule ==
    \E source \in SourceTexts, name \in HostStrings, outcome \in Outcomes :
        /\ Call("compile_module", source, name, outcome,
                Context_compile_module(Eng, source, name, outcome))
        /\ UNCHANGED registered

MakeEnumType ==
    \E name \in HostStrings :
        /\ Call("make_enum_type", name, <<>>, "ok", Context_make_enum_type(Eng, name))
        /\ UNCHANGED registered

GetOrMakeInterned ==
    \E str \in HostStrings :
        /\ Call("get_or_make_interned", str, <<>>, "ok",
                Context_get_or_make_interned(Eng, str))
        /\ UNCHANGED registered

AppendModulePath ==
    \E path \in HostStrings :
        /\ Call("append_module_path", path, <<>>, "ok",
                Context_append_module_path(Eng, path))
        /\ UNCHANGED registered

MakeWithContext ==
    \E str \in HostStrings :
        /\ Call("make_with_context", str, <<>>, "ok", str_make_with_context(Eng, str))
        /\ UNCHANGED registered

CreateModule ==
    \E name \in HostStrings, keep \in BOOLEAN :
        LET r == Context_create_module(Eng, name, keep) IN
        /\ Call("create_module", name, <<>>, "ok", r)
        /\ registered' = [registered EXCEPT ![name] = @ \cup {r.ret.ptr}]

GetModule ==
    \E name \in HostStrings :
        /\ Call("get_module", name, <<>>, "ok", Context_get_module(Eng, name))
        /\ UNCHANGED registered

\* bolt-sys: ctx.make_module() and ctx.register_module(name, &module)
SysRegisterModule ==
    \E name \in HostStrings, keep \in BOOLEAN :
        LET made == BoltContext_make_module(Eng)
            r == BoltContext_register_module(made.eng, name, made.ret.ptr, keep) IN
        /\ Call("sys_register_module", name, <<>>, "ok",
                Ran(r.ret, made.calls \o r.calls, r.eng))
        /\ registered' = [registered EXCEPT ![name] = @ \cup {made.ret.ptr}]

\* bolt-sys: ctx.find_module(name)
SysFindModule ==
    \E name \in HostStrings :
        /\ Call("sys_find_module", name, <<>>, "ok", BoltContext_find_module(Eng, name))
        /\ UNCHANGED registered

NextModule ==
    \/ Run \/ CompileModule
    \/ MakeEnumType \/ GetOrMakeInterned \/ AppendModulePath \/ MakeWithContext
    \/ CreateModule \/ GetModule
    \/ SysRegisterModule \/ SysFindModule

SpecModule == InitModule /\ [][NextModule]_vars

---------------------------------------------------------------------------
(* One open context and its collector: rooting, reference counts, cycles   *)

\* the push_root and pop_root calls of one run, and the references held
MaxRootOps == 2
MaxRefs == 2

Gc == GcState(objs, roots, gcPaused, gcHist.underflow)

InitGc ==
    /\ InitMaskDefaults
    /\ InitValueDefaults
    /\ InitCtxDefaults /\ InitModDefaults /\ InitGcDefaults /\ InitFileDefaults
    /\ InitExtDefaults

\* the engine state g replaces the collector's, and the host's record h
GcStep(g, h) ==
    /\ objs' = g.objs
    /\ roots' = g.roots
    /\ gcPaused' = g.paused
    /\ gcHist' = [h EXCEPT !.underflow = g.underflow]
    /\ UNCHANGED <<maskVars, valueVars, thread, extVars, ctxVars, modVars, fileVars>>

\* the objects the host holds a handle to: those not yet collected
Held == {o \in GcObjects : objs[o].st = "live"}

PushRoot ==
    \E o \in Held :
        /\ gcHist.pushes < MaxRootOps
        /\ GcStep(Context_push_root(Gc, o),
                  [gcHist EXCEPT !.op = "push_root", !.pushes = @ + 1,
                                 !.stack = Append(@, o)])

\* pop_root takes no argument and checks nothing
PopRoot ==
    /\ gcHist.pops < MaxRootOps
    /\ GcStep(Context_pop_root(Gc),
              [gcHist EXCEPT !.op = "pop_root", !.pops = @ + 1,
                             !.stack = IF @ = <<>> THEN @ ELSE SubSeq(@, 1, Len(@) - 1)])

AddRef ==
    \E o \in Held :
        /\ gcHist.held[o] < MaxRefs
        /\ GcStep(Context_add_ref(Gc, o),
                  [gcHist EXCEPT !.op = "add_ref", !.held[o] = @ + 1])

RemoveRef ==
    \E o \in Held :
        /\ gcHist.held[o] > -1
        /\ GcStep(Context_remove_ref(Gc, o),
                  [gcHist EXCEPT !.op = "remove_ref", !.held[o] = @ - 1])

GcPause ==
    /\ ~gcPaused
    /\ GcStep(Context_gc_pause(Gc), [gcHist EXCEPT !.op = "gc_pause"])

GcUnpause ==
    /\ gcPaused
    /\ GcStep(Context_gc_unpause(Gc), [gcHist EXCEPT !.op = "gc_unpause"])

\* the VM drops or takes a reference of its own to an object
VmRelease ==
    \E o \in Held :
        /\ objs[o].vm
        /\ GcStep([Gc EXCEPT !.objs[o].vm = FALSE], [gcHist EXCEPT !.op = "vm_release"])

VmHold ==
    \E o \in Held :
        /\ ~objs[o].vm
        /\ GcStep([Gc EXCEPT !.objs[o].vm = TRUE], [gcHist EXCEPT !.op = "vm_hold"])

\* the engine runs a collection cycle (never while collection is paused)
Collect ==
    /\ ~gcPaused
    /\ GcStep(bt_collect(Gc), [gcHist EXCEPT !.op = "collect"])

NextGc ==
    \/ PushRoot \/ PopRoot \/ AddRef \/ RemoveRef
    \/ GcPause \/ GcUnpause
    \/ VmRelease \/ VmHold \/ Collect

SpecGc == InitGc /\ [][NextGc]_vars

---------------------------------------------------------------------------
(* The engine reads source files through the handlers                      *)

InitFile ==
    /\ InitMaskDefaults
    /\ InitValueDefaults
    /\ InitCtxDefaults /\ InitModDefaults /\ InitGcDefaults /\ InitFileDefaults
    /\ InitExtDefaults

\* what the engine's slot holds when it calls read_file: null, or the
\* address of a box already given back
SlotInits == {0} \cup {h \in HandleIds : fileHandles[h].mem \in {"freed", "misfreed"}}

ReadWith(name, path, out, sl, r) ==
    /\ slot' = r.slot
    /\ fileHandles' = r.handles
    /\ sources' = r.sources
    /\ lastRead' = [op |-> name, path |-> path, out |-> out, ret |-> r.ret,
                    slotBefore |-> sl, before |-> fileHandles]
    /\ UNCHANGED <<maskVars, valueVars, thread, extVars, ctxVars, modVars, gcVars>>

\* the engine calls handlers.read_file(ctx, path, &handle)
ReadFile ==
    \E path \in Paths, out \in OutHandles, sl \in SlotInits, tolerant \in BOOLEAN :
        /\ \E h \in HandleIds : fileHandles[h].mem = "unused"
        /\ \E b \in HandleIds : sources[b] = "unused"
        /\ ReadWith("read_file", path, out, sl,
                    rust_read_file(path, out, sl, fileHandles, sources, tolerant))

SysReadFile ==
    \E path \in Paths, out \in OutHandles, sl \in SlotInits, tolerant \in BOOLEAN :
        /\ \E h \in HandleIds : fileHandles[h].mem = "unused"
        /\ \E b \in HandleIds : sources[b] = "unused"
        /\ ReadWith("sys_read_file", path, out, sl,
                    sys_rust_read_file(path, out, sl, fileHandles, sources, tolerant))

\* the engine is done with a file it read: handlers.close_file(ctx, path,
\* handle) with the handle the last successful read_file stored
CloseFile ==
    /\ lastRead.op \in {"read_file", "sys_read_file"}
    /\ lastRead.ret # 0
    /\ fileHandles[slot].mem = "boxed"
    /\ fileHandles' = rust_close_file(fileHandles, slot)
    /\ lastRead' = [op |-> "close_file", path |-> lastRead.path, out |-> lastRead.out,
                    ret |-> lastRead.ret, slotBefore |-> slot, before |-> fileHandles]
    /\ UNCHANGED <<maskVars, valueVars, thread, extVars, ctxVars, modVars, gcVars, slot, sources>>

\* handlers.free_source(ctx, source) with the buffer read_file returned
FreeSource ==
    /\ lastRead.op = "close_file"
    /\ sources[lastRead.ret] = "live"
    /\ sources' = rust_free_source(sources, lastRead.ret)
    /\ lastRead' = [lastRead EXCEPT !.op = "free_source"]
    /\ UNCHANGED <<maskVars, valueVars, thread, extVars, ctxVars, modVars, gcVars, slot, fileHandles>>

NextFile == ReadFile \/ SysReadFile \/ CloseFile \/ FreeSource

SpecFile == InitFile /\ [][NextFile]_vars

---------------------------------------------------------------------------
(* The engine allocates through the handlers                               *)

InitAlloc ==
    /\ InitMaskDefaults
    /\ InitValueDefaults
    /\ InitCtxDefaults /\ InitModDefaults /\ InitGcDefaults /\ InitFileDefaults
    /\ InitAllocDefaults
    /\ lastSig = NoSig
    /\ InitShapeDefaults
    /\ InitThrDefaults

\* the pointers the engine holds: null and the blocks it was given
EnginePtrs == {0} \cup {b \in BlockIds : blocks[b].state = "live"}

HasUnused == \E b \in BlockIds : blocks[b].state = "unused"

Handle(name, ptr, size, r) ==
    /\ blocks' = r.blocks
    /\ lastAlloc' = [op |-> name, ptr |-> ptr, size |-> size, ret |-> r.ret,
                     layout |-> r.layout, held |-> r.held]
    /\ UNCHANGED <<maskVars, valueVars, thread, ctxVars, modVars, gcVars, fileVars, lastSig, shapeVars, thrVars>>

\* handlers.alloc(size)
HandlerAlloc ==
    \E size \in Sizes :
        /\ HasUnused
        /\ Handle("alloc", 0, size, rust_alloc(blocks, size))

SysHandlerAlloc ==
    \E size \in Sizes :
        /\ HasUnused
        /\ Handle("alloc", 0, size, sys_rust_alloc(blocks, size))

\* handlers.free(ptr)
HandlerFree ==
    \E ptr \in EnginePtrs, tolerant \in BOOLEAN :
        Handle("free", ptr, 0, rust_free(blocks, ptr, tolerant))

SysHandlerFree ==
    \E ptr \in EnginePtrs, tolerant \in BOOLEAN :
        Handle("free", ptr, 0, sys_rust_free(blocks, ptr, tolerant))

\* handlers.realloc(ptr, size)
HandlerRealloc ==
    \E ptr \in EnginePtrs, size \in Sizes, tolerant \in BOOLEAN :
        /\ ptr = 0 => HasUnused
        /\ Handle("realloc", ptr, size, rust_realloc(blocks, ptr, size, tolerant))

SysHandlerRealloc ==
    \E ptr \in EnginePtrs, size \in Sizes, tolerant \in BOOLEAN :
        /\ ptr = 0 => HasUnused
        /\ Handle("realloc", ptr, size, sys_rust_realloc(blocks, ptr, size, tolerant))

NextAlloc ==
    HandlerAlloc \/ SysHandlerAlloc \/ HandlerFree \/ SysHandlerFree
        \/ HandlerRealloc \/ SysHandlerRealloc

SpecAlloc == InitAlloc /\ [][NextAlloc]_vars

---------------------------------------------------------------------------
(* Signatures built from lists of every length                             *)

\* the longest list of parameter types
MaxTypes == 520
Arities == 0..MaxTypes

InitSignature ==
    /\ InitMaskDefaults
    /\ InitValueDefaults
    /\ InitCtxDefaults /\ InitModDefaults /\ InitGcDefaults /\ InitFileDefaults
    /\ InitExtDefaults

Build(name, k, r) ==
    /\ lastSig' = [op |-> name, k |-> k, count |-> r.count, buffer |-> r.buffer]
    /\ UNCHANGED <<maskVars, valueVars, thread, ctxVars, modVars, gcVars, fileVars, allocVars, shapeVars, thrVars>>

MakeSignatureType == \E k \in Arities : Build("make_signature_type", k, make_signature_type(k))
CallSignatureMakeType == \E k \in Arities : Build("make_type", k, CallSignature_make_type(k))
ModuleExportNative ==
    \E k \in Arities : Build("module_export_native", k, Context_module_export_native(k))
SysCallSignatureMakeType ==
    \E k \in Arities : Build("sys_make_type", k, sys_CallSignature_make_type(k))

NextSignature ==
    MakeSignatureType \/ CallSignatureMakeType \/ ModuleExportNative
        \/ SysCallSignatureMakeType

SpecSignature == InitSignature /\ [][NextSignature]_vars

---------------------------------------------------------------------------
(* Tableshapes built and looked up                                         *)

InitShape ==
    /\ InitMaskDefaults
    /\ InitValueDefaults
    /\ InitCtxDefaults /\ InitModDefaults /\ InitGcDefaults /\ InitFileDefaults
    /\ InitAllocDefaults
    /\ lastSig = NoSig
    /\ InitShapeDefaults
    /\ InitThrDefaults

ShapeStep(S, f) ==
    /\ shapes' = S
    /\ lastField' = f
    /\ UNCHANGED <<maskVars, valueVars, thread, ctxVars, modVars, gcVars, fileVars,
                   allocVars, lastSig, thrVars>>

\* ctx.tableshape_set_parent(tshp, parent), the chain kept free of cycles
TableshapeSetParent ==
    \E tshp \in ShapeIds, parent \in ShapeIds :
        /\ ~Reaches(shapes, parent, tshp)
        /\ ShapeStep(Context_tableshape_set_parent(shapes, tshp, parent), NoField)

\* the parent link is removed: the binding called with a null parent, which
\* no Type handle can carry
TableshapeUnsetParent ==
    \E tshp \in ShapeIds :
        /\ shapes[tshp].parent # 0
        /\ ShapeStep(bt_tableshape_set_parent(shapes, tshp, 0), NoField)

TableshapeAddLayout ==
    \E tshp \in ShapeIds, key \in FieldKeys \ {"y"}, type \in FieldTypes :
        ShapeStep(Context_tableshape_add_layout(shapes, tshp, key, type), NoField)

TypeGetField ==
    \E tshp \in ShapeIds, key \in FieldKeys :
        ShapeStep(shapes, [op |-> "type_get_field", tshp |-> tshp, key |-> key,
                           ret |-> Context_type_get_field(shapes, tshp, key)])

TypeGetFieldType ==
    \E tshp \in ShapeIds, key \in FieldKeys :
        ShapeStep(shapes, [op |-> "type_get_field_type", tshp |-> tshp, key |-> key,
                           ret |-> Context_type_get_field_type(shapes, tshp, key)])

NextShape ==
    TableshapeSetParent \/ TableshapeUnsetParent \/ TableshapeAddLayout
        \/ TypeGetField \/ TypeGetFieldType

SpecShape == InitShape /\ [][NextShape]_vars

---------------------------------------------------------------------------
(* The lifecycle of threads and of the values that wrap them               *)

InitThreadLife ==
    /\ InitMaskDefaults
    /\ InitValueDefaults
    /\ InitCtxDefaults /\ InitModDefaults /\ InitGcDefaults /\ InitFileDefaults
    /\ InitAllocDefaults
    /\ lastSig = NoSig
    /\ InitShapeDefaults
    /\ InitThrDefaults

HeldThreads == {h \in ThreadHandleIds : thandles[h].st = "held"}
FreeHandles == {h \in ThreadHandleIds : thandles[h].st = "unused"}
NextThreadHandle == CHOOSE h \in FreeHandles : \A g \in FreeHandles : h <= g

ThrStep(T, H, name, p) ==
    /\ threads' = T
    /\ thandles' = H
    /\ lastThr' = [op |-> name, ptr |-> p, live |-> threads[p].st = "live"]
    /\ UNCHANGED <<maskVars, valueVars, thread, ctxVars, modVars, gcVars, fileVars,
                   allocVars, lastSig, shapeVars>>

NewHandle(p, crate) ==
    [thandles EXCEPT ![NextThreadHandle] = [st |-> "held", ptr |-> p, crate |-> crate]]

MakeThread ==
    /\ FreeHandles # {}
    /\ \E t \in ThreadIds : threads[t].st = "unused"
    /\ LET o == Context_make_thread(threads) IN
       /\ threads' = o.threads
       /\ thandles' = NewHandle(o.ptr, "rs")
       /\ lastThr' = [op |-> "make_thread", ptr |-> o.ptr, live |-> TRUE]
       /\ UNCHANGED <<maskVars, valueVars, thread, ctxVars, modVars, gcVars, fileVars,
                      allocVars, lastSig, shapeVars>>

SysMakeThread ==
    /\ FreeHandles # {}
    /\ \E t \in ThreadIds : threads[t].st = "unused"
    /\ LET o == BoltContext_make_thread(threads) IN
       /\ threads' = o.threads
       /\ thandles' = NewHandle(o.ptr, "sys")
       /\ lastThr' = [op |-> "make_thread", ptr |-> o.ptr, live |-> TRUE]
       /\ UNCHANGED <<maskVars, valueVars, thread, ctxVars, modVars, gcVars, fileVars,
                      allocVars, lastSig, shapeVars>>

\* thread.clone()
ThreadClone ==
    \E h \in HeldThreads :
        /\ thandles[h].crate = "rs"
        /\ FreeHandles # {}
        /\ ThrStep(threads, NewHandle(Thread_clone(thandles[h].ptr), "rs"),
                   "clone", thandles[h].ptr)

\* Thread::from_raw(thread.as_ptr()), BoltThread::from_raw(thread.as_ptr()):
\* safe functions
ThreadFromRaw ==
    \E h \in HeldThreads :
        /\ thandles[h].crate = "rs"
        /\ FreeHandles # {}
        /\ ThrStep(threads, NewHandle(Thread_from_raw(thandles[h].ptr).ptr, "rs"),
                   "from_raw", thandles[h].ptr)

BoltThreadFromRaw ==
    \E h \in HeldThreads :
        /\ thandles[h].crate = "sys"
        /\ FreeHandles # {}
        /\ ThrStep(threads, NewHandle(BoltThread_from_raw(thandles[h].ptr).ptr, "sys"),
                   "from_raw", thandles[h].ptr)

\* the calls made through a thread value
ThreadOps == {"get_arg", "push", "call", "return_val", "get_returned", "argc"}

ThreadOp ==
    \E h \in HeldThreads, op \in ThreadOps :
        ThrStep(threads, thandles, op, thandles[h].ptr)

\* ctx.destroy_thread(thread): the value is moved into the call
DestroyThread ==
    \E h \in HeldThreads :
        /\ threads[thandles[h].ptr].destroys < 2
        /\ ThrStep(IF thandles[h].crate = "rs"
                   THEN Context_destroy_thread(threads, thandles[h].ptr)
                   ELSE BoltContext_destroy_thread(threads, thandles[h].ptr),
                   [thandles EXCEPT ![h].st = "moved"],
                   "destroy_thread", thandles[h].ptr)

NextThreadLife ==
    MakeThread \/ SysMakeThread \/ ThreadClone \/ ThreadFromRaw \/ BoltThreadFromRaw
        \/ ThreadOp \/ DestroyThread

SpecThreadLife == InitThreadLife /\ [][NextThreadLife]_vars

---------------------------------------------------------------------------
(* Claims about the object header, checked under SpecMask                  *)

\* C1 (as stated): after any sequence of set_mark / clear_mark / set_type /
\* set_next_ptr, each decoder returns the value most recently written to its
\* own subfield (the initial mask's value if never written), where the value
\* written by set_next_ptr(p) is p itself, for any u64 p.
C1_LastWrittenAnyPtr ==
    /\ is_marked(mask) = lastMark
    /\ get_type(mask) = lastType
    /\ get_next_ptr(mask) = lastPtr

\* C1 (amended): as above, but get_next_ptr returns the last p written
\* restricted to bits 2..55 (p AND 0x00FF_FFFF_FFFF_FFFC), which is p itself
\* exactly when p is 4-byte aligned and below 2^56.
C1_LastWritten ==
    /\ is_marked(mask) = lastMark
    /\ get_type(mask) = lastType
    /\ get_next_ptr(mask) = lastPtr \cap (2..55)

\* C1 witness: all three subfields written, the pointer with a word that has
\* bits outside the pointer range, and the mark cleared last.
C1_Witness ==
    /\ lastOp.op = "clear_mark"
    /\ lastType = 255
    /\ lastPtr = {0, 3, 63}
    /\ is_marked(prevMask)

\* C2: after set_type(m, t) with t a valid tag, get_type(m) = t and
\* get_next_ptr(m), is_marked(m) are what they were before the call.
C2_SetTypeRoundTrip ==
    lastOp.op = "set_type" =>
        /\ get_type(mask) = lastOp.tag
        /\ get_next_ptr(mask) = get_next_ptr(prevMask)
        /\ is_marked(mask) = is_marked(prevMask)

\* C2 witness: set_type(m, 11) on a marked header with pointer bits and the
\* tag 255 already stored.
C2_Witness ==
    /\ lastOp.op = "set_type"
    /\ lastOp.tag = 11
    /\ get_type(prevMask) = 255
    /\ is_marked(prevMask)
    /\ get_next_ptr(prevMask) = {3, 55}

\* C3: after set_mark(m) is_marked(m) is true, after clear_mark(m) it is
\* false; applying either again changes nothing; neither changes get_type(m)
\* or get_next_ptr(m).
C3_MarkRoundTrip ==
    /\ lastOp.op = "set_mark" =>
        /\ is_marked(mask)
        /\ set_mark(mask) = mask
        /\ get_type(mask) = get_type(prevMask)
        /\ get_next_ptr(mask) = get_next_ptr(prevMask)
    /\ lastOp.op = "clear_mark" =>
        /\ ~is_marked(mask)
        /\ clear_mark(mask) = mask
        /\ get_type(mask) = get_type(prevMask)
        /\ get_next_ptr(mask) = get_next_ptr(prevMask)

\* C3 witness: clear_mark on a marked header that carries a tag and a pointer.
C3_Witness ==
    /\ lastOp.op = "clear_mark"
    /\ is_marked(prevMask)
    /\ get_type(prevMask) = 128
    /\ get_next_ptr(prevMask) = 2..55

\* the header rebuilt from its three decoded subfields
Rebuild(marked, ptr, tag) ==
    (IF marked THEN {0} ELSE {}) \cup ptr \cup {b + 56 : b \in FromNat(tag)}

\* C4 (as stated): the subfields are bit 0, bits 1..55 and bits 56..63:
\* get_next_ptr returns exactly bits 1..55, and the three subfields together
\* determine all 64 bits of the header.
C4_LayoutBits1To55 ==
    /\ is_marked(mask) = (0 \in mask)
    /\ get_next_ptr(mask) = mask \cap (1..55)
    /\ FromNat(get_type(mask)) = {b - 56 : b \in mask \cap (56..63)}
    /\ Rebuild(is_marked(mask), get_next_ptr(mask), get_type(mask)) = mask

\* C4 (amended): the subfields are bit 0 (mark), bits 2..55 (next pointer)
\* and bits 56..63 (type tag): each decoder returns exactly its range, the
\* three ranges are pairwise disjoint and cover every bit except bit 1, which
\* no decoder reads and no mutator writes; so the three subfields determine
\* the header up to bit 1.
C4_Layout ==
    /\ is_marked(mask) = (0 \in mask)
    /\ get_next_ptr(mask) = mask \cap (2..55)
    /\ FromNat(get_type(mask)) = {b - 56 : b \in mask \cap (56..63)}
    /\ MARK_BIT \cap PTR_BITS = {}
    /\ MARK_BIT \cap Shl64(TYPE_MASK, TYPE_SHIFT) = {}
    /\ PTR_BITS \cap Shl64(TYPE_MASK, TYPE_SHIFT) = {}
    /\ MARK_BIT \cup PTR_BITS \cup Shl64(TYPE_MASK, TYPE_SHIFT) = Bits64 \ {1}
    /\ Rebuild(is_marked(mask), get_next_ptr(mask), get_type(mask)) = mask \ {1}
    /\ (1 \in mask) = (1 \in prevMask)
    /\ ( /\ is_marked(mask) = is_marked(prevMask)
         /\ get_next_ptr(mask) = get_next_ptr(prevMask)
         /\ get_type(mask) = get_type(prevMask) ) => mask = prevMask

\* C4 witness: a header with bit 1 set after a pointer was written over it.
C4_Witness ==
    /\ lastOp.op = "set_next_ptr"
    /\ lastOp.ptr = {1, 2}
    /\ 1 \in mask
    /\ 1 \in prevMask
    /\ get_next_ptr(mask) = {2}

---------------------------------------------------------------------------
(* Claims about Thread::get_arg, checked under SpecThread                  *)

\* C5: get_arg(idx) on a thread with argc() = n returns
\* IndexOutOfBounds{idx, len: n} for every idx >= n, reading no argument slot,
\* and for every idx < n the result of the type-checked conversion of the
\* idx-th argument (n = 0 included); in both crates.
C5_GetArgBounds ==
    last.op \in {"get_arg", "sys_get_arg"} =>
        LET n == Len(thread.args)
            idx == last.idx
        IN  IF idx >= n
            THEN /\ last.ret = Err(IndexOutOfBounds(idx, n))
                 /\ last.calls = <<"bt_argc">>
            ELSE LET arg == thread.args[idx + 1] IN
                 /\ SubSeq(last.calls, 1, 2) = <<"bt_argc", "bt_arg">>
                 /\ last.ret = IF last.op = "get_arg"
                                THEN FromBoltValue_from(last.T, arg).ret
                                ELSE sys_FromBoltValue_from(last.T, arg).ret
                 /\ last.T = "f64" =>
                        IF arg.tags = {"number"} THEN last.ret = OkNum(arg.num)
                        ELSE /\ ~last.ret.ok
                             /\ last.ret.err.tag = "TypeGuard"
                             /\ last.ret.err.expected = "Number"

\* C5 witness: the first index past the end of a two-argument call.
C5_Witness ==
    /\ last.op = "get_arg"
    /\ Len(thread.args) = 2
    /\ last.idx = 2
    /\ ~last.ret.ok
    /\ last.ret.err = IndexOutOfBounds(2, 2)

---------------------------------------------------------------------------
(* Claims about values and conversions, checked under Spec                 *)

\* the kind in the header of the object a value points to
HeaderTag(v) == ToNat({b - 56 : b \in Heap[v.ptr].mask \cap (56..63)})

IsObjectOfKind(v, tag) == "object" \in v.tags /\ v.ptr # 0 /\ HeaderTag(v) = tag

\* the discriminant of a value the engine made, as a ValueType
KindName(tag) ==
    CASE tag = 1 -> "Type" [] tag = 2 -> "String" [] tag = 3 -> "Module"
      [] tag = 4 -> "Import" [] tag = 5 -> "Function" [] tag = 6 -> "NativeFunction"
      [] tag = 7 -> "Closure" [] tag = 8 -> "Array" [] tag = 9 -> "Table"
      [] tag = 10 -> "UserData" [] tag = 11 -> "Annotation" [] OTHER -> "None"

\* the classification the ordered checks null, bool, number, enum, object give
Classified(v) ==
    IF "null" \in v.tags THEN "Null"
    ELSE IF "bool" \in v.tags THEN "Bool"
    ELSE IF "number" \in v.tags THEN "Number"
    ELSE IF "enum" \in v.tags THEN "Enum"
    ELSE IF "object" \in v.tags /\ v.ptr # 0 THEN KindName(HeaderTag(v))
    ELSE "None"

\* C6 (as stated): checked extraction of a Type (a Module) returns Ok only
\* for an object whose header tag is Type (Module); every other value gets
\* ArgError::TypeGuard; in both crates.
C6_HandleTagChecked ==
    /\ last.op \in {"Type_from", "sys_Type_from"} =>
        IF IsObjectOfKind(val, bt_ObjectType_BT_OBJECT_TYPE_TYPE)
        THEN last.ret = OkObj(val.ptr)
        ELSE ~last.ret.ok /\ last.ret.err.tag = "TypeGuard"
    /\ last.op \in {"Module_from", "sys_Module_from"} =>
        IF IsObjectOfKind(val, bt_ObjectType_BT_OBJECT_TYPE_MODULE)
        THEN last.ret = OkObj(val.ptr)
        ELSE ~last.ret.ok /\ last.ret.err.tag = "TypeGuard"

\* C7 (as stated): when the checked extraction of a number fails on a value
\* the engine made, the error is TypeGuard with expected = Number and actual =
\* the value's real discriminant; in both crates.
C7_ActualDiscriminant ==
    (last.op \in {"f64_from", "sys_f64_from"} /\ origin = "engine") =>
        IF val.tags = {"number"} THEN last.ret = OkNum(val.num)
        ELSE last.ret = Err(TypeGuard("Number", Classified(val)))

CheckOrder == <<"bt_is_null", "bt_is_bool", "bt_is_number", "bt_is_enum_val", "bt_is_object">>
TagOrder == <<"null", "bool", "number", "enum", "object">>

\* the checks consulted stop at the first that holds
ShortCircuits(v, calls) ==
    \A i \in 1..5 :
        TagOrder[i] \in v.tags =>
            \A j \in (i + 1)..5 :
                \A k \in 1..Len(calls) : calls[k] # CheckOrder[j]

\* C9 (as stated): ValueType::from_value returns Null, else Bool, else Number,
\* else Enum, else the ValueType of the header tag of a non-null object, else
\* None, and consults no check after the first that holds; in both crates.
C9_OrderedClassification ==
    last.op \in {"from_value", "sys_from_value"} =>
        /\ last.ret = Classified(val)
        /\ ShortCircuits(val, last.calls)

\* C9, bolt-rs alone: the ordered classification holds of
\* bolt_rs::ValueType::from_value on every value, made by the engine or not.
C9_OrderedClassificationBoltRs ==
    last.op = "from_value" =>
        /\ last.ret = Classified(val)
        /\ ShortCircuits(val, last.calls)

\* C10: each accessor consults its own predicate first; as_number, as_bool and
\* as_enum return Some exactly when it holds, as_object exactly when it holds
\* and the pointer is not null; when the predicate fails the accessor returns
\* None having called no payload reader, and as_object never reads the object.
C10_AccessorsRecheck ==
    /\ last.op = "as_number" =>
        /\ Head(last.calls) = "bt_is_number"
        /\ last.ret = IF "number" \in val.tags THEN SomeNum(val.num) ELSE None
        /\ "number" \notin val.tags => last.calls = <<"bt_is_number">>
    /\ last.op = "as_bool" =>
        /\ Head(last.calls) = "bt_is_bool"
        /\ last.ret = IF "bool" \in val.tags THEN SomeNum(val.num) ELSE None
        /\ "bool" \notin val.tags => last.calls = <<"bt_is_bool">>
    /\ last.op = "as_enum" =>
        /\ Head(last.calls) = "bt_is_enum_val"
        /\ last.ret = IF "enum" \in val.tags THEN SomeNum(val.num) ELSE None
        /\ "enum" \notin val.tags => last.calls = <<"bt_is_enum_val">>
    /\ last.op = "as_object" =>
        /\ Head(last.calls) = "bt_is_object"
        /\ last.ret = IF "object" \in val.tags /\ val.ptr # 0
                      THEN SomeObj(val.ptr) ELSE None
        /\ "object" \notin val.tags => last.calls = <<"bt_is_object">>
        /\ \A k \in 1..Len(last.calls) : last.calls[k] # "read_mask"

\* C10 witness: as_object on an object value whose pointer is null.
C10_Witness ==
    /\ last.op = "as_object"
    /\ val = bt_value(0)
    /\ last.ret = None

---------------------------------------------------------------------------
(* Claims about the lifecycle of contexts, checked under SpecContext       *)

\* C11: for any sequence of Context::new, clone, from_raw and drop, the engine
\* context behind a Context is closed (bt_close) at most once, and a drop
\* closes it only when no other live wrapper refers to the same context.
C11_ClosedExactlyOnce ==
    /\ \A e \in Engines : engines[e].closes <= 1
    /\ (lastCtx.op = "drop" /\ lastCtx.ptr # 0) => lastCtx.sharers = 0

\* C12: every handle the host can still use belongs to a context that is
\* still open.
C12_HandlesOfOpenContext ==
    \A h \in handles : engines[h.ctx].st = "open"

\* C19: a constructor (Context::new, BoltContext::new) either panics or
\* returns a wrapper around a non-null, opened engine context.
C19_NoHalfBuiltContext ==
    /\ \A w \in WrapperIds : wrappers[w].via = "new" => wrappers[w].ptr \in Engines
    /\ (lastCtx.op \in {"new", "sys_new"} /\ ~lastCtx.panic) => lastCtx.open

\* the same for the constructor of bolt-rs alone
C19_NoHalfBuiltContextBoltRs ==
    /\ \A w \in WrapperIds :
        (wrappers[w].via = "new" /\ wrappers[w].crate = "rs") => wrappers[w].ptr \in Engines
    /\ (lastCtx.op = "new" /\ ~lastCtx.panic) => lastCtx.open

---------------------------------------------------------------------------
(* Claims about host strings, modules and run, checked under SpecModule    *)

\* the calls that pass a host string to the engine
StringOps ==
    {"run", "compile_module", "make_enum_type", "get_or_make_interned",
     "append_module_path", "create_module", "get_module", "make_with_context"}

\* the call reported a string-conversion error (make_with_context returns a
\* bt_Value and has no way to report one)
ReportsStringConversion(c) ==
    /\ c.op # "make_with_context"
    /\ ~c.ret.ok
    /\ c.ret.err.tag = "StringConversion"

\* C13: every call that passes a host string to the engine reports a
\* string-conversion error when the string has an embedded nul byte, before
\* any engine call or allocation, leaving the engine state unchanged.
C13_NulReportedBeforeEngine ==
    (lastCall.op \in StringOps /\ (HasNul(lastCall.input) \/ HasNul(lastCall.input2))) =>
        /\ ReportsStringConversion(lastCall)
        /\ lastCall.calls = <<>>
        /\ Eng = lastCall.before

\* the same for the calls that convert with as_c_str()? alone
C13_NulReportedByFallibleCalls ==
    (/\ lastCall.op \in StringOps \ {"create_module", "get_module", "make_with_context"}
     /\ (HasNul(lastCall.input) \/ HasNul(lastCall.input2))) =>
        /\ ReportsStringConversion(lastCall)
        /\ lastCall.calls = <<>>
        /\ Eng = lastCall.before

\* C14: looking up a name under which a module was created and registered
\* returns a handle with the pointer that was registered; looking up a name
\* under which nothing was ever registered returns NotFound with that name.
C14_ModuleLookup ==
    lastCall.op \in {"get_module", "sys_find_module"} =>
        IF registered[lastCall.input] = {}
        THEN lastCall.ret = Err(NotFound(lastCall.input))
        ELSE lastCall.ret.ok /\ lastCall.ret.ptr \in registered[lastCall.input]

\* the characters make_with_context hands to the engine for a host string
CNameOf(str) == IF HasNul(str) THEN <<>> ELSE str

\* the same with names compared as the engine sees them
C14_ModuleLookupByCName ==
    lastCall.op \in {"get_module", "sys_find_module"} =>
        LET regs == UNION {registered[n] : n \in {m \in HostStrings :
                                                    CNameOf(m) = CNameOf(lastCall.input)}} IN
        IF regs = {}
        THEN lastCall.ret = Err(NotFound(lastCall.input))
        ELSE lastCall.ret.ok /\ lastCall.ret.ptr \in regs

\* C15: registering a module under a name already present in the module
\* table returns ModuleError::AlreadyRegistered(name) and leaves the existing
\* registration in place.
C15_DuplicateRejected ==
    (/\ lastCall.op \in {"create_module", "sys_register_module"}
     /\ ~HasNul(lastCall.input)
     /\ lastCall.before.modules[lastCall.input] # 0) =>
        /\ lastCall.ret = Err(AlreadyRegistered(lastCall.input))
        /\ modules[lastCall.input] = lastCall.before.modules[lastCall.input]

\* C20: run returns Ok(()) exactly when the engine reports success and
\* compile_module returns Ok(module) exactly when the engine returns a
\* non-null module; when either returns Error::BoltError the engine has
\* invoked on_error during the call.
C20_RunReportsEngineVerdict ==
    /\ lastCall.op = "run" =>
        /\ lastCall.ret.ok <=>
            (lastCall.calls # <<>> /\ Head(lastCall.calls) = "bt_run"
             /\ lastCall.outcome = "ok")
        /\ (~lastCall.ret.ok /\ lastCall.ret.err.tag = "BoltError") =>
            /\ lastCall.calls = <<"bt_run", "on_error">>
            /\ errLog = lastCall.before.errs + 1
    /\ lastCall.op = "compile_module" =>
        /\ lastCall.ret.ok <=>
            (lastCall.calls # <<>> /\ Head(lastCall.calls) = "bt_compile_module"
             /\ lastCall.outcome # "parse")
        /\ lastCall.ret.ok => (lastCall.ret.ptr = heapObjs /\ lastCall.ret.ptr # 0)
        /\ (~lastCall.ret.ok /\ lastCall.ret.err.tag = "BoltError") =>
            /\ lastCall.calls = <<"bt_compile_module", "on_error">>
            /\ errLog = lastCall.before.errs + 1

\* C20 witness: a run the engine fails: on_error was invoked, then BoltError.
C20_Witness ==
    /\ lastCall.op = "run"
    /\ lastCall.outcome = "runtime"
    /\ lastCall.ret = Err(BoltError("Execution failed"))
    /\ lastCall.calls = <<"bt_run", "on_error">>
    /\ errLog = 1

---------------------------------------------------------------------------
(* Claims about rooting and collection, checked under SpecGc               *)

\* C16: at every point the number of pop_root calls performed so far does
\* not exceed the number of push_root calls performed so far: pop_root is
\* never applied to an empty root stack.
C16_PopsNeverExceedPushes ==
    /\ gcHist.pops <= gcHist.pushes
    /\ ~gcHist.underflow

\* the object is among the roots the host pushed and has not popped
HostRooted(o) == \E i \in 1..Len(gcHist.stack) : gcHist.stack[i] = o

---------------------------------------------------------------------------
(* Claims about the file handlers, checked under SpecFile                  *)

\* the boxes made during the last read_file call
BoxedDuringCall == {h \in HandleIds : lastRead.before[h].mem = "unused"
                                       /\ fileHandles[h].mem # "unused"}

\* C18: read_file has exactly two outcomes: it returns a non-null source
\* buffer and has stored a non-null handle in *out_handle, or it returns null
\* and no file handle remains allocated: every handle boxed during the call
\* has been released (its File closed, its box freed) and *out_handle does
\* not point to a live handle.
C18_ReadFileTwoOutcomes ==
    lastRead.op \in {"read_file", "sys_read_file"} =>
        \/ /\ lastRead.ret # 0
           /\ sources[lastRead.ret] = "live"
           /\ lastRead.out = "slot"
           /\ slot # 0
           /\ fileHandles[slot] = [mem |-> "boxed", file |-> "open"]
        \/ /\ lastRead.ret = 0
           /\ \A h \in BoxedDuringCall :
                fileHandles[h] = [mem |-> "freed", file |-> "closed"]
           /\ (lastRead.out = "slot" /\ slot # 0) => fileHandles[slot].mem # "boxed"

\* the same without the File inside the box: the pointers alone
C18_ReadFilePointers ==
    lastRead.op \in {"read_file", "sys_read_file"} =>
        \/ /\ lastRead.ret # 0
           /\ lastRead.out = "slot"
           /\ slot # 0
           /\ fileHandles[slot].mem = "boxed"
        \/ /\ lastRead.ret = 0
           /\ \A h \in BoxedDuringCall : fileHandles[h].mem # "boxed"
           /\ (lastRead.out = "slot" /\ slot # 0) => fileHandles[slot].mem # "boxed"

---------------------------------------------------------------------------
(* Claims about out-of-range arguments of the header mutators, checked     *)
(* under SpecHeader                                                        *)

TypeField == 56..63

\* C30: the header mutators confine their write to their own bit range even
\* for out-of-range arguments: set_type(m, t) for any u32 t changes only bits
\* 56..63 and stores t mod 256; set_next_ptr(m, p) for any u64 p changes only
\* the bits of PTR_BITS and stores p AND PTR_BITS; in both cases the mark bit
\* and the other subfield are what they were.
C30_WritesConfined ==
    /\ lastOp.op = "set_type" =>
        /\ mask \ TypeField = prevMask \ TypeField
        /\ get_type(mask) = lastOp.tag % 256
        /\ is_marked(mask) = is_marked(prevMask)
        /\ get_next_ptr(mask) = get_next_ptr(prevMask)
    /\ lastOp.op = "set_next_ptr" =>
        /\ mask \ PTR_BITS = prevMask \ PTR_BITS
        /\ get_next_ptr(mask) = BitAnd(lastOp.ptr, PTR_BITS)
        /\ is_marked(mask) = is_marked(prevMask)
        /\ get_type(mask) = get_type(prevMask)

\* C30 witness: set_type(m, 511) on a marked header that holds pointer bits,
\* bit 1 and another tag
C30_Witness ==
    /\ lastOp.op = "set_type"
    /\ lastOp.tag = 511
    /\ prevMask = {0, 1, 2, 55, 59}
    /\ mask = {0, 1, 2, 55} \cup TypeField

---------------------------------------------------------------------------
(* Claims about numbers and about the totality of classification, checked  *)
(* under Spec                                                              *)

C27_FromValueTotal ==
    last.op \in {"from_value", "sys_from_value", "sys_resolve_type"} => last.ret # Panic

\* the same for bolt-rs alone
C27_FromValueTotalBoltRs ==
    last.op = "from_value" => last.ret # Panic

---------------------------------------------------------------------------
(* Claims about the keys of the module registry, checked under SpecModule  *)

\* the registry key make_with_context builds for two host names is the same
Aliased(m, n) == m # n /\ CNameOf(m) = CNameOf(n)

\* C26: get_module(n) (and bolt-sys find_module(n)) returns a module only if
\* a module was registered before under exactly the name n: two different
\* host names never resolve to the same registry key, names with an embedded
\* nul byte included.
C26_ExactNameOnly ==
    (lastCall.op \in {"get_module", "sys_find_module"} /\ lastCall.ret.ok) =>
        /\ registered[lastCall.input] # {}
        /\ lastCall.ret.ptr \in registered[lastCall.input]
        /\ \A n \in HostStrings :
             registered[n] # {} => ~Aliased(n, lastCall.input)

\* the same for names without a nul byte
C26_ExactNameOnlyNoNul ==
    (/\ lastCall.op \in {"get_module", "sys_find_module"}
     /\ lastCall.ret.ok
     /\ ~HasNul(lastCall.input)
     /\ \A n \in HostStrings : registered[n] # {} => ~HasNul(n)) =>
        /\ registered[lastCall.input] # {}
        /\ lastCall.ret.ptr \in registered[lastCall.input]

---------------------------------------------------------------------------
(* Claims about the allocator handlers, checked under SpecAlloc            *)

\* C29: the allocator handlers are layout-consistent: a block obtained with
\* size s is released by the free handler, or resized by the realloc handler,
\* under the size s it currently has, never under another.
C29_LayoutConsistent ==
    (lastAlloc.op \in {"free", "realloc"} /\ lastAlloc.ptr # 0) =>
        lastAlloc.layout = lastAlloc.held

\* the same for blocks of one byte
C29_LayoutConsistentOneByte ==
    (lastAlloc.op \in {"free", "realloc"} /\ lastAlloc.ptr # 0 /\ lastAlloc.held = 1) =>
        lastAlloc.layout = lastAlloc.held

---------------------------------------------------------------------------
(* Claims about the parameter count of a signature, checked under          *)
(* SpecSignature                                                           *)

\* C25: when a signature is built from k parameter types, the count handed
\* to the engine is k narrowed to 8 bits; for every k it does not exceed the
\* number of type pointers in the buffer handed over, and it is k exactly
\* when k <= 255.
C25_CountWithinBuffer ==
    lastSig.op # "none" =>
        /\ lastSig.count \in 0..255
        /\ (lastSig.k - lastSig.count) % 256 = 0
        /\ lastSig.count <= lastSig.buffer
        /\ lastSig.count = lastSig.k <=> lastSig.k <= 255

\* C25 witness: 511 types given to make_signature_type: 255 are counted and
\* 255 pointers are handed over
C25_Witness ==
    /\ lastSig.op = "make_signature_type"
    /\ lastSig.k = 511
    /\ lastSig.count = 255
    /\ lastSig.buffer = 255

---------------------------------------------------------------------------
(* Claims about tableshape inheritance, checked under SpecShape            *)

\* the shape d parent links above t, 0 past the end of the chain
RECURSIVE Up(_, _)
Up(t, d) == IF t = 0 \/ d = 0 THEN t ELSE Up(shapes[t].parent, d - 1)

Declares(t, key) == t # 0 /\ shapes[t].layout[key] # 0

\* the result of a lookup, as the type found (0 for None)
FoundType ==
    IF ~lastField.ret.some THEN 0
    ELSE IF lastField.op = "type_get_field" THEN lastField.ret.value.ptr
    ELSE lastField.ret.ptr

C22_WitnessInherited ==
    /\ lastField.op = "type_get_field_type"
    /\ lastField.tshp = 1
    /\ shapes[1].parent = 2
    /\ ~Declares(1, "x")
    /\ lastField.ret = SomeObj(12)

---------------------------------------------------------------------------
(* Claims about the lifecycle of threads, checked under SpecThreadLife     *)

\* C28: for any sequence of make_thread, clone, from_raw, thread operations
\* and destroy_thread, each engine thread is destroyed at most once and no
\* thread operation is applied through a handle to a destroyed thread.
C28_ThreadDestroyedOnce ==
    /\ \A t \in ThreadIds : threads[t].destroys <= 1
    /\ lastThr.op \in ThreadOps \cup {"destroy_thread"} => lastThr.live

\* the same for hosts that hold one value per thread: every held value wraps
\* a thread no other held value wraps
OneValuePerThread ==
    \A g, h \in ThreadHandleIds :
        (g # h /\ thandles[g].st # "unused" /\ thandles[h].st # "unused") =>
            thandles[g].ptr # thandles[h].ptr

C28_ThreadDestroyedOnceUnshared ==
    OneValuePerThread =>
        /\ \A t \in ThreadIds : threads[t].destroys <= 1
        /\ lastThr.op \in ThreadOps \cup {"destroy_thread"} => lastThr.live

---------------------------------------------------------------------------
(* Claims about native calls and the unchecked surface, checked under      *)
(* SpecNative                                                              *)

IsNumberArg(v) == v.tags = {"number"}

\* C21: when a script calls a native function registered under an
\* n-parameter signature, the callback sees argc() = n, get_arg(i) yields the
\* i-th argument the script passed for every i < n, and the value given to
\* return_val is what the script observes as the result of the call
\* (arguments 1 and 5 to an adding function are observed as 6).
C21_NativeCall ==
    last.op \in {"native_call", "sys_native_call"} =>
        LET n == Len(last.passed) IN
        /\ last.argc = n
        /\ Len(last.seen) = n
        /\ \A i \in 1..n :
             IsNumberArg(last.passed[i]) => last.seen[i] = OkNum(last.passed[i].num)
        /\ (\A i \in 1..n : IsNumberArg(last.passed[i])) =>
             /\ bt_is_number(thread.returned) # 0
             /\ bt_get_number(thread.returned) = SumOk(last.passed, 1)
        /\ last.passed = <<bt_make_number(1), bt_make_number(5)>> =>
             thread.returned = bt_make_number(6)

\* C21 witness: the adding function called with 1 and 5 after another call
\* left an object in the result slot
C21_Witness ==
    /\ last.op = "native_call"
    /\ last.passed = <<bt_make_number(1), bt_make_number(5)>>
    /\ last.before = bt_value(2)
    /\ last.argc = 2
    /\ thread.returned = bt_make_number(6)

\* the argument (or result) has the type asked for
HasType(v, T) ==
    CASE T = "f64" -> IsNumberArg(v)
      [] T = "Type" -> v.tags = {"object"} /\ IsObjectOfKind(v, bt_ObjectType_BT_OBJECT_TYPE_TYPE)
      [] T = "Module" ->
            v.tags = {"object"} /\ IsObjectOfKind(v, bt_ObjectType_BT_OBJECT_TYPE_MODULE)

\* the value inside an Ok
Unwrapped(r) == IF "num" \in DOMAIN r THEN PlainNum(r.num) ELSE PlainObj(r.ptr)

Checks == {"bt_argc", "bt_is_null", "bt_is_bool", "bt_is_number", "bt_is_enum_val",
           "bt_is_object"}

NoCheckIn(calls) == \A i \in 1..Len(calls) : calls[i] \notin Checks

=============================================================================
